---- MODULE Spec2Model ----
(***************************************************************************)
(* Model of the synchronization core of home_assistant_sync:               *)
(*   auth.py        ClientTokenManager, generate_jwt_token,                *)
(*                  verify_jwt_token                                       *)
(*   server.py      EntitySyncServer (duplex handler, broadcast,           *)
(*                  call_service) and the HTTP views                       *)
(*   coordinator.py state_changed_listener                                 *)
(*                                                                         *)
(* Time is counted in days.  A token is the record of what jwt.encode      *)
(* signs: the subject (client_id), the expiry and the key that signed it.  *)
(* Client ids are 1..MaxClients; subject 0 stands for the subject          *)
(* "registration" of the temporary token of the configuration flow.        *)
(***************************************************************************)
EXTENDS Integers, Sequences, FiniteSets, TLC

\* ---------------------------------------------------------------- bounds
MaxClients == 2
MaxTicks == 1
MaxSessions == 2
MaxEvents == 2
MaxInbox == 2
MaxTokens == 2
MaxRequests == 2
MaxDispatches == 1

\* ------------------------------------------------------ program constants
TOKEN_EXPIRATION_DAYS == 365
RegistrationSubject == 0
HTTP_OK == 200
HTTP_UNAUTHORIZED == 401
HTTP_NOT_FOUND == 404
HTTP_ERROR == 500

ClientIds == 1..MaxClients
ClientNames == {"alpha"}
ServerSecret == "secret"
WrongSecret == "wrong"
NoSig == "nosig"
Sessions == 1..MaxSessions

\* The exposure list (entry.options[CONF_EXPOSED_ENTITIES]) and the entities
\* of the host; "lock.door" exists on the host and is not exposed.
Entities == {"light.kitchen", "lock.door"}
ExposedEntities == {"light.kitchen"}
NoEntity == "none"
Values == {"on"}
NoState == "nostate"

VARIABLES
    now,            \* datetime.utcnow(), in days
    ticks,          \* number of clock advances so far
    tm_clients,     \* ClientTokenManager._clients
    durable,        \* the record held by Store (STORAGE_KEY)
    tokens,         \* every token created so far (issued, minted, forged)
    revoked,        \* ids whose record a revoke has removed (history)
    resp,           \* the last HTTP response (seq flips on every request)
    hostCalls,      \* host actions invoked through hass.services.async_call
    states,         \* hass.states: entity -> current snapshot or NoState
    evCount,        \* number of host state-change events emitted
    conn,           \* per duplex connection: "idle" | "open" | "broken" | "closed"
    authenticated,  \* the handler's local flag, per connection
    clients,        \* EntitySyncServer.clients (the session registry)
    inbox,          \* frames delivered to each connection by send_json
    tasks,          \* the broadcast tasks created by state_changed_listener
    phase,          \* EntitySyncClient: "setup" | "running" | "stopping" | "stopped"
    reachable,      \* the server accepts connections from the client
    tokenOk,        \* the server's verify_client_token accepts client_token
    _connected,     \* EntitySyncClient._connected
    _ws,            \* EntitySyncClient._ws: "none" | "open" | "dropped" | "closed"
    _reconnect_task,    \* EntitySyncClient._reconnect_task, with the task's state
    _listen_task,   \* EntitySyncClient._listen_task, with the task's state
    _pending_requests,  \* EntitySyncClient._pending_requests (its keys)
    future,         \* per request: the state of its asyncio.Future
    call,           \* per request: where its async_call_service stands
    returned,       \* per request: what async_call_service returned
    _entity_states, \* EntitySyncClient._entity_states (the cache)
    rd,             \* frames of the server's session the client has read
    saving,         \* register and revoke calls suspended in async_save
    subscribe_sends,    \* the sends of the last _subscribe_to_entities, in order
    _entity_data,   \* SyncedLight._entity_data of the imported light
    last_dispatch,  \* the last async_set_entity_state: arguments and calls
    shutdown        \* EntitySyncServer.async_shutdown: its progress

clientVars == <<phase, reachable, tokenOk, _connected, _ws, _reconnect_task,
                _listen_task, _pending_requests, future, call, returned,
                _entity_states, rd, subscribe_sends, _entity_data,
                last_dispatch>>

vars == <<now, ticks, tm_clients, durable, tokens, revoked, resp,
          hostCalls, states, evCount, conn, authenticated, clients, inbox,
          tasks, clientVars, saving, shutdown>>

authVars == <<now, ticks, tm_clients, durable, tokens, revoked>>
duplexVars == <<states, evCount, conn, authenticated, clients, inbox, tasks,
                shutdown>>

\* ------------------------------------------------------------ tokens
\* jwt.encode(payload, secret): the payload's client_id and exp, signed.
jwt_encode(client_id, exp, secret) ==
    [client_id |-> client_id, exp |-> exp, sig |-> secret]

\* A string that is no JWS at all (or a missing token: jwt.decode raises
\* DecodeError, an InvalidTokenError, for both).
Garbage == [client_id |-> RegistrationSubject, exp |-> 0, sig |-> NoSig]

jwt_decode_expired_after(token, secret, t) ==
    IF token.sig # secret THEN [ok |-> FALSE, error |-> "InvalidTokenError"]
    ELSE IF token.exp < t THEN [ok |-> FALSE, error |-> "ExpiredSignatureError"]
    ELSE [ok |-> TRUE, error |-> "none"]

\* jwt.decode(token, secret, algorithms=["HS256"]) at time t: the signature is
\* checked first, then the expiry (exp <= now raises ExpiredSignatureError).
jwt_decode(token, secret, t) ==
    IF token.sig # secret THEN [ok |-> FALSE, error |-> "InvalidTokenError"]
    ELSE IF token.exp <= t THEN [ok |-> FALSE, error |-> "ExpiredSignatureError"]
    ELSE [ok |-> TRUE, error |-> "none"]

_generate_token_other_secret(client_id, t) ==
    jwt_encode(client_id, t + TOKEN_EXPIRATION_DAYS, WrongSecret)

\* ClientTokenManager._generate_token
_generate_token(client_id, t) ==
    jwt_encode(client_id, t + TOKEN_EXPIRATION_DAYS, ServerSecret)

\* generate_jwt_token(secret, client_id)
generate_jwt_token(secret, client_id, t) ==
    jwt_encode(client_id, t + TOKEN_EXPIRATION_DAYS, secret)

\* verify_jwt_token(token, secret): the payload, or None (FALSE here).
verify_jwt_token(token, secret, t) == jwt_decode(token, secret, t).ok

verify_token_no_membership(token, table, t) ==
    jwt_decode(token, ServerSecret, t).ok

\* ClientTokenManager.verify_token: signature and expiry, then membership of
\* the payload's client_id in _clients.
verify_token(token, table, t) ==
    /\ jwt_decode(token, ServerSecret, t).ok
    /\ token.client_id \in DOMAIN table

\* What the two verify functions hand back to their caller: the decoded
\* payload, or None from either except clause (the failure is only logged).
NonePayload == [none |-> TRUE, client_id |-> RegistrationSubject, exp |-> 0]
PayloadOf(token) ==
    [none |-> FALSE, client_id |-> token.client_id, exp |-> token.exp]
verify_token_returns(token, table, t) ==
    IF verify_token(token, table, t) THEN PayloadOf(token) ELSE NonePayload
verify_jwt_token_returns(token, secret, t) ==
    IF verify_jwt_token(token, secret, t) THEN PayloadOf(token)
    ELSE NonePayload

\* EntitySyncServer.verify_client_token
verify_client_token(token) == verify_token(token, tm_clients, now)

\* ClientTokenManager.generate_client_id: secrets.token_urlsafe(16), 128 random
\* bits, modelled as an id that was never handed out before.
UsedIds == {t.client_id : t \in tokens} \cup DOMAIN tm_clients \cup DOMAIN durable
HasFreshId == ClientIds \ UsedIds # {}
generate_client_id == CHOOSE i \in ClientIds \ UsedIds :
                          \A j \in ClientIds \ UsedIds : i <= j

ClientRecord(client_id, name, token, t) ==
    [client_id |-> client_id, client_name |-> name, token |-> token,
     created_at |-> t]

\* d with key k bound to v (dict item assignment)
DictSet(d, k, v) == [x \in DOMAIN d \cup {k} |-> IF x = k THEN v ELSE d[x]]
\* d without key k (del d[k])
DictDel(d, k) == [x \in DOMAIN d \ {k} |-> d[x]]
EmptyDict == [x \in {} |-> 0]

\* ------------------------------------------------------- host state
NoSnapshot == [state |-> NoState, seq |-> 0]

\* EntitySyncServer._state_to_dict
_state_to_dict(entity_id, st) ==
    [entity_id |-> entity_id, state |-> st.state, last_updated |-> st.seq]

\* EntitySyncServer.get_exposed_entities
get_exposed_entities == ExposedEntities

\* EntitySyncServer.get_entity_state: hass.states.get(entity_id), any entity
\* of the host; None (has = FALSE) when the host has no state for it.
get_entity_state(entity_id) ==
    IF entity_id \in Entities /\ states[entity_id].state # NoState
    THEN [has |-> TRUE, data |-> _state_to_dict(entity_id, states[entity_id])]
    ELSE [has |-> FALSE, data |-> _state_to_dict(NoEntity, NoSnapshot)]

\* ------------------------------------------------------ call_service
\* service_data as received: a JSON object with or without an entity_id
\* (NoEntity: the key is missing, .get returns None), or a JSON value that is
\* no object (null, a list, a string), on which .get raises AttributeError.
ServiceData ==
    [kind : {"dict"}, entity_id : Entities \cup {NoEntity}]
        \cup {[kind |-> "other", entity_id |-> NoEntity]}

call_service_no_exposure_check(service_data, hostOk) ==
    IF service_data.kind # "dict"
    THEN [raised |-> TRUE, success |-> FALSE, error |-> "AttributeError",
          invoked |-> FALSE]
    ELSE IF hostOk
    THEN [raised |-> FALSE, success |-> TRUE, error |-> "none", invoked |-> TRUE]
    ELSE [raised |-> FALSE, success |-> FALSE, error |-> "host error",
          invoked |-> TRUE]

call_service_host_error_raises(service_data, hostOk) ==
    IF service_data.kind # "dict"
    THEN [raised |-> TRUE, success |-> FALSE, error |-> "AttributeError",
          invoked |-> FALSE]
    ELSE IF service_data.entity_id \notin get_exposed_entities
    THEN [raised |-> FALSE, success |-> FALSE, error |-> "Entity not exposed",
          invoked |-> FALSE]
    ELSE IF hostOk
    THEN [raised |-> FALSE, success |-> TRUE, error |-> "none", invoked |-> TRUE]
    ELSE [raised |-> TRUE, success |-> FALSE, error |-> "host error",
          invoked |-> TRUE]

\* EntitySyncServer.call_service: the exposure check, then the host action,
\* whose exception (hostOk = FALSE) is caught and reported.
call_service(service_data, hostOk) ==
    IF service_data.kind # "dict"
    THEN [raised |-> TRUE, success |-> FALSE, error |-> "AttributeError",
          invoked |-> FALSE]
    ELSE IF service_data.entity_id \notin get_exposed_entities
    THEN [raised |-> FALSE, success |-> FALSE, error |-> "Entity not exposed",
          invoked |-> FALSE]
    ELSE IF hostOk
    THEN [raised |-> FALSE, success |-> TRUE, error |-> "none", invoked |-> TRUE]
    ELSE [raised |-> FALSE, success |-> FALSE, error |-> "host error",
          invoked |-> TRUE]

HostCall(via, origin, service_data) ==
    [via |-> via, origin |-> origin, entity_id |-> service_data.entity_id]

\* ------------------------------------------------- credential store
async_save_writes_nothing(table, saveOk) == durable

\* ClientTokenManager.async_save: Store.async_save either writes the table or
\* raises and leaves the durable record as it was.
async_save(table, saveOk) == IF saveOk THEN table ELSE durable

\* ClientTokenManager.async_load (EntitySyncServer.async_setup after a restart)
Reload ==
    /\ tm_clients' = durable
    /\ UNCHANGED <<now, ticks, durable, tokens, revoked, resp, hostCalls>>
    /\ UNCHANGED duplexVars
    /\ UNCHANGED clientVars
    /\ UNCHANGED saving

\* ClientTokenManager.async_register_client(client_name, client_id): the
\* record is stored under client_id, whatever was there, and then saved.
async_register_client(name, client_id, saveOk) ==
    LET token == _generate_token(client_id, now) IN
    /\ tm_clients' = DictSet(tm_clients, client_id,
                             ClientRecord(client_id, name, token, now))
    /\ durable' = async_save(tm_clients', saveOk)
    /\ tokens' = tokens \cup {token}

\* ClientTokenManager.async_revoke_client
async_revoke_client(client_id, saveOk) ==
    IF client_id \in DOMAIN tm_clients
    THEN /\ tm_clients' = DictDel(tm_clients, client_id)
         /\ durable' = async_save(tm_clients', saveOk)
         /\ revoked' = revoked \cup {client_id}
    ELSE UNCHANGED <<tm_clients, durable, revoked>>

\* A caller of ClientTokenManager.async_register_client that passes an
\* explicit client_id.
RegisterClient(name, client_id, saveOk) ==
    /\ Cardinality(tokens) < MaxTokens
    /\ async_register_client(name, client_id, saveOk)
    /\ UNCHANGED <<now, ticks, revoked, resp, hostCalls>>
    /\ UNCHANGED duplexVars
    /\ UNCHANGED clientVars
    /\ UNCHANGED saving

\* A revocation that also empties the session registry.
RevokeClient_drops_sessions(client_id, saveOk) ==
    /\ client_id \in DOMAIN tm_clients
    /\ async_revoke_client(client_id, saveOk)
    /\ clients' = {}
    /\ UNCHANGED <<now, ticks, tokens, resp, hostCalls>>
    /\ UNCHANGED <<states, evCount, conn, authenticated, inbox, tasks,
                   shutdown>>
    /\ UNCHANGED clientVars
    /\ UNCHANGED saving

\* ClientTokenManager.async_revoke_client called directly (server.py 95-97)
RevokeClient(client_id, saveOk) ==
    /\ client_id \in DOMAIN tm_clients
    /\ async_revoke_client(client_id, saveOk)
    /\ UNCHANGED <<now, ticks, tokens, resp, hostCalls>>
    /\ UNCHANGED duplexVars
    /\ UNCHANGED clientVars
    /\ UNCHANGED saving

\* config_flow._register_with_server: the temporary registration token,
\* signed with the secret the operator typed in.
MintRegistrationToken(secret) ==
    /\ Cardinality(tokens) < MaxTokens
    /\ tokens' = tokens \cup {generate_jwt_token(secret, RegistrationSubject, now)}
    /\ UNCHANGED <<now, ticks, tm_clients, durable, revoked, resp, hostCalls>>
    /\ UNCHANGED duplexVars
    /\ UNCHANGED clientVars
    /\ UNCHANGED saving

\* The clock advances by a token's lifetime at a time, so that a token issued
\* at the previous instant is exactly at its expiry.
TickSteps == {TOKEN_EXPIRATION_DAYS}
Tick(d) ==
    /\ ticks < MaxTicks
    /\ now' = now + d
    /\ ticks' = ticks + 1
    /\ UNCHANGED <<tm_clients, durable, tokens, revoked, resp, hostCalls>>
    /\ UNCHANGED duplexVars
    /\ UNCHANGED clientVars
    /\ UNCHANGED saving

\* ------------------------------------------------------- HTTP views
\* Tokens a requester can present: those created so far, a string that is no
\* token, and a token for client 1 signed with a key that is not the server's.
Forged == jwt_encode(1, 4 * TOKEN_EXPIRATION_DAYS, WrongSecret)
PresentableTokens == tokens \cup {Garbage, Forged}

\* The Authorization header: absent, or "<scheme> <token>".
NoHeader == [scheme |-> "none", token |-> Garbage]
Headers == {NoHeader} \cup [scheme : {"Bearer"}, token : PresentableTokens]
               \cup [scheme : {"Basic"}, token : tokens]

Response(ep, status, body, success, verified, token, data) ==
    [seq |-> 1 - resp.seq, ep |-> ep, status |-> status, body |-> body,
     success |-> success, verified |-> verified, token |-> token,
     data |-> data]

bearer_check_no_prefix(hdr) ==
    IF verify_client_token(hdr.token) THEN "ok" ELSE "invalid"

\* The check every view but register-client starts with:
\* auth_header.startswith("Bearer "), then verify_client_token(auth_header[7:]).
bearer_check(hdr) ==
    IF hdr.scheme # "Bearer" THEN "no_bearer"
    ELSE IF verify_client_token(hdr.token) THEN "ok" ELSE "invalid"

\* The two 401 answers of a view.
Denied(ep, check) ==
    IF check = "no_bearer"
    THEN Response(ep, HTTP_UNAUTHORIZED, "Unauthorized", FALSE, FALSE,
                  Garbage, {})
    ELSE Response(ep, HTTP_UNAUTHORIZED, "Invalid token", FALSE, TRUE,
                  Garbage, {})

\* EntitySyncAuthView.get
HttpAuthCheck(hdr) ==
    /\ resp' = IF bearer_check(hdr) # "ok"
               THEN Denied("auth", bearer_check(hdr))
               ELSE Response("auth", HTTP_OK, "ok", TRUE, TRUE,
                             Garbage, {})
    /\ UNCHANGED <<authVars, hostCalls>>
    /\ UNCHANGED duplexVars
    /\ UNCHANGED clientVars
    /\ UNCHANGED saving

\* EntitySyncEntitiesView.get
HttpEntities(hdr) ==
    /\ resp' = IF bearer_check(hdr) # "ok"
               THEN Denied("entities", bearer_check(hdr))
               ELSE Response("entities", HTTP_OK, "entity_states",
                             TRUE, TRUE, Garbage,
                             {get_entity_state(e).data :
                                 e \in {x \in get_exposed_entities :
                                           get_entity_state(x).has}})
    /\ UNCHANGED <<authVars, hostCalls>>
    /\ UNCHANGED duplexVars
    /\ UNCHANGED clientVars
    /\ UNCHANGED saving

\* EntitySyncCallServiceView.post
HttpCallService(hdr, service_data, hostOk) ==
    LET check == bearer_check(hdr)
        result == call_service(service_data, hostOk)
    IN
    /\ IF check # "ok"
       THEN /\ resp' = Denied("call_service", check)
            /\ UNCHANGED hostCalls
       ELSE /\ resp' = IF result.raised
                       THEN Response("call_service", HTTP_ERROR,
                                     result.error, FALSE, TRUE, Garbage, {})
                       ELSE Response("call_service", HTTP_OK,
                                     result.error, result.success, TRUE,
                                     Garbage, {})
            /\ hostCalls' = IF result.invoked
                            THEN hostCalls \cup {HostCall("http", 0, service_data)}
                            ELSE hostCalls
    /\ UNCHANGED authVars
    /\ UNCHANGED duplexVars
    /\ UNCHANGED clientVars
    /\ UNCHANGED saving

\* EntitySyncRegisterClientView.post: the bearer is checked with
\* verify_jwt_token against the server's secret, with no membership check.
HttpRegisterClient(hdr, name, saveOk) ==
    /\ IF hdr.scheme # "Bearer"
       THEN /\ resp' = Denied("register_client", "no_bearer")
            /\ UNCHANGED <<tm_clients, durable, tokens>>
       ELSE IF ~verify_jwt_token(hdr.token, ServerSecret, now)
       THEN /\ resp' = Denied("register_client", "invalid")
            /\ UNCHANGED <<tm_clients, durable, tokens>>
       ELSE /\ HasFreshId
            /\ Cardinality(tokens) < MaxTokens
            /\ async_register_client(name, generate_client_id, saveOk)
            /\ resp' = IF saveOk
                       THEN Response("register_client", HTTP_OK,
                                     "client_data", TRUE, TRUE,
                                     _generate_token(generate_client_id, now),
                                     {generate_client_id})
                       ELSE Response("register_client", HTTP_ERROR,
                                     "save failed", FALSE, TRUE, Garbage, {})
    /\ UNCHANGED <<now, ticks, revoked, hostCalls>>
    /\ UNCHANGED duplexVars
    /\ UNCHANGED clientVars
    /\ UNCHANGED saving

\* EntitySyncRevokeClientView.post
HttpRevokeClient(hdr, client_id, saveOk) ==
    LET check == bearer_check(hdr) IN
    /\ IF check # "ok"
       THEN /\ resp' = Denied("revoke_client", check)
            /\ UNCHANGED <<tm_clients, durable, revoked>>
       ELSE /\ async_revoke_client(client_id, saveOk)
            /\ resp' = IF client_id \notin DOMAIN tm_clients
                       THEN Response("revoke_client", HTTP_NOT_FOUND,
                                     "Client not found", FALSE, TRUE, Garbage, {})
                       ELSE IF saveOk
                       THEN Response("revoke_client", HTTP_OK,
                                     "revoked", TRUE, TRUE, Garbage, {})
                       ELSE Response("revoke_client", HTTP_ERROR,
                                     "save failed", FALSE, TRUE, Garbage, {})
    /\ UNCHANGED <<now, ticks, tokens, hostCalls>>
    /\ UNCHANGED duplexVars
    /\ UNCHANGED clientVars
    /\ UNCHANGED saving

\* EntitySyncListClientsView.get: the loop over get_clients() reads
\* ATTR_CREATED_AT, a name server.py does not import, so the first record
\* raises NameError and the request ends with a server error.
HttpListClients(hdr) ==
    /\ resp' = IF bearer_check(hdr) # "ok"
               THEN Denied("clients", bearer_check(hdr))
               ELSE IF DOMAIN tm_clients = {}
               THEN Response("clients", HTTP_OK, "clients", TRUE,
                             TRUE, Garbage, {})
               ELSE Response("clients", HTTP_ERROR, "NameError",
                             FALSE, TRUE, Garbage, {})
    /\ UNCHANGED <<authVars, hostCalls>>
    /\ UNCHANGED duplexVars
    /\ UNCHANGED clientVars
    /\ UNCHANGED saving

\* ------------------------------------------------- client: its state
\* asyncio.sleep(30) in _reconnect_later; wait_for(future, timeout=10.0).
RECONNECT_DELAY == 30
REQUEST_TIMEOUT == 10

\* The requests async_call_service creates, each with its own uuid4.
ClientRequests == 1..MaxRequests
\* A request_id no pending request has.
UnknownRequest == 0

\* _reconnect_task: None, or the task created last with its state: "sleeping"
\* (in asyncio.sleep), "running" (in _connect), "done" or "cancelled".  delay
\* is the sleep the task starts with.
NoTask == [st |-> "none", delay |-> 0]
ReconnectTask(st, delay) == [st |-> st, delay |-> delay]

\* What async_call_service gave its caller: nothing yet, a dict, or the
\* CancelledError it let through.
NoOutcome == [kind |-> "none", success |-> FALSE, error |-> "none"]
CallResult(kind, success, error) ==
    [kind |-> kind, success |-> success, error |-> error]

\* An asyncio.Future: "none" (not created), "pending", "result" (set_result
\* was called, with the value and the request_id of the frame it came from)
\* or "cancelled".
NoValue == [success |-> FALSE, error |-> "none"]
Future(st, by, value) == [st |-> st, by |-> by, value |-> value]
NoFuture == Future("none", UnknownRequest, NoValue)
PendingFuture == Future("pending", UnknownRequest, NoValue)
CancelledFuture == Future("cancelled", UnknownRequest, NoValue)

\* No entry in _entity_states.
NoCached == _state_to_dict(NoEntity, NoSnapshot)

\* The imported light for which light.async_setup_entry makes a SyncedLight.
LightEntity == "light.kitchen"

\* SyncedLight._entity_data: no entity yet, or the "state" of the dict the
\* entity holds and whether that dict is the very object that is the cache's
\* entry (get_entity_state returns the cache's dict, not a copy of it).
NoEntityData == [exists |-> FALSE, state |-> NoState, shared |-> FALSE]
EntityData(state, shared) == [exists |-> TRUE, state |-> state, shared |-> shared]

\* Entity ids given to async_set_entity_state, as their parts: what
\* entity_id.split(".") cuts at is the part ".".
DispatchIds ==
    { <<"light", ".", "kitchen">>, <<"switch", ".", "fan">>,
      <<"cover", ".", "door">>, <<"climate", ".", "hall">>,
      <<"lock", ".", "door">>, <<"light", "house", ".", "x">>, <<"fan">> }

DesiredStates == {"on", "off", "open", "closed"}

\* The keyword arguments the code looks at besides "state", with a value each.
ParamValue ==
    [brightness |-> "200", rgb_color |-> "red", color_temp |-> "300",
     temperature |-> "21", hvac_mode |-> "heat"]
ParamKeys == DOMAIN ParamValue

\* **kwargs: any of the parameters, and "state" or no "state".
KwargsOf(keys, state) ==
    [k \in keys \cup (IF state = NoState THEN {} ELSE {"state"}) |->
        IF k = "state" THEN state ELSE ParamValue[k]]
KwargsSet ==
    {KwargsOf(keys, st) : keys \in SUBSET ParamKeys,
                          st \in DesiredStates \cup {NoState}}

\* entity_id.split(".")[0]
RECURSIVE FirstPart(_)
FirstPart(entity_id) ==
    IF entity_id = <<>> \/ Head(entity_id) = "." THEN <<>>
    ELSE <<Head(entity_id)>> \o FirstPart(Tail(entity_id))

\* if key in kwargs: service_data[key] = kwargs[key]
PassThrough(service_data, kwargs, key) ==
    IF key \in DOMAIN kwargs THEN DictSet(service_data, key, kwargs[key])
    ELSE service_data

\* One call of async_call_service(domain, service, service_data).
ServiceCall(domain, service, service_data) ==
    [domain |-> domain, service |-> service, service_data |-> service_data]

\* async_set_entity_state with a generic branch that always turns off.
async_set_entity_state_fallback_off(entity_id, kwargs) ==
    LET domain == FirstPart(entity_id)
        state == IF "state" \in DOMAIN kwargs THEN kwargs["state"] ELSE NoState
        service_data == DictSet(EmptyDict, "entity_id", entity_id)
    IN  IF domain = <<"light">>
        THEN IF state = "on"
             THEN <<ServiceCall(domain, "turn_on",
                      PassThrough(PassThrough(PassThrough(service_data,
                          kwargs, "brightness"), kwargs, "rgb_color"),
                          kwargs, "color_temp"))>>
             ELSE <<ServiceCall(domain, "turn_off", service_data)>>
        ELSE IF domain = <<"switch">>
        THEN <<ServiceCall(domain, IF state = "on" THEN "turn_on"
                                   ELSE "turn_off", service_data)>>
        ELSE IF domain = <<"cover">>
        THEN <<ServiceCall(domain,
                           IF state = "open" THEN "open_cover"
                           ELSE IF state = "closed" THEN "close_cover"
                           ELSE "stop_cover", service_data)>>
        ELSE IF domain = <<"climate">>
        THEN <<ServiceCall(domain, "set_temperature",
                  PassThrough(PassThrough(service_data,
                      kwargs, "temperature"), kwargs, "hvac_mode"))>>
        ELSE <<ServiceCall(domain, "turn_off", service_data)>>

\* async_set_entity_state: the calls of async_call_service it makes, in
\* order (the result of the call is only logged).
async_set_entity_state(entity_id, kwargs) ==
    LET domain == FirstPart(entity_id)
        state == IF "state" \in DOMAIN kwargs THEN kwargs["state"] ELSE NoState
        service_data == DictSet(EmptyDict, "entity_id", entity_id)
    IN  IF domain = <<"light">>
        THEN IF state = "on"
             THEN <<ServiceCall(domain, "turn_on",
                      PassThrough(PassThrough(PassThrough(service_data,
                          kwargs, "brightness"), kwargs, "rgb_color"),
                          kwargs, "color_temp"))>>
             ELSE <<ServiceCall(domain, "turn_off", service_data)>>
        ELSE IF domain = <<"switch">>
        THEN <<ServiceCall(domain, IF state = "on" THEN "turn_on"
                                   ELSE "turn_off", service_data)>>
        ELSE IF domain = <<"cover">>
        THEN <<ServiceCall(domain,
                           IF state = "open" THEN "open_cover"
                           ELSE IF state = "closed" THEN "close_cover"
                           ELSE "stop_cover", service_data)>>
        ELSE IF domain = <<"climate">>
        THEN <<ServiceCall(domain, "set_temperature",
                  PassThrough(PassThrough(service_data,
                      kwargs, "temperature"), kwargs, "hvac_mode"))>>
        ELSE <<ServiceCall(domain, IF state = "on" THEN "turn_on"
                                   ELSE "turn_off", service_data)>>

\* No async_set_entity_state yet.
NoDispatch == [entity_id |-> <<>>, kwargs |-> EmptyDict, calls |-> <<>>]

\* EntitySyncClient.__init__; in server mode the coordinator has no client.
ClientFields ==
    /\ _connected = FALSE
    /\ _ws = "none"
    /\ _reconnect_task = NoTask
    /\ _listen_task = "none"
    /\ _pending_requests = {}
    /\ future = [r \in ClientRequests |-> NoFuture]
    /\ call = [r \in ClientRequests |-> "unused"]
    /\ returned = [r \in ClientRequests |-> NoOutcome]
    /\ _entity_states = [e \in Entities |-> NoCached]
    /\ rd = 0
    /\ subscribe_sends = <<>>
    /\ _entity_data = NoEntityData
    /\ last_dispatch = NoDispatch

ClientIdle ==
    /\ phase = "none"
    /\ reachable = TRUE
    /\ tokenOk = TRUE
    /\ ClientFields

\* ------------------------------------------- credential store: Init, Next
NoResponse ==
    [seq |-> 0, ep |-> "none", status |-> 0,
     body |-> "none", success |-> FALSE, verified |-> FALSE, token |-> Garbage,
     data |-> {}]

\* EntitySyncServer.async_shutdown has not been called; while it runs: the
\* sessions of list(self.clients) it has still to close, and (a history) the
\* sessions that were in the registry at some moment since it began.
NoShutdown == [st |-> "idle", todo |-> {}, seen |-> {}]

DuplexIdle ==
    /\ states = [e \in Entities |-> NoSnapshot]
    /\ evCount = 0
    /\ conn = [s \in Sessions |-> "idle"]
    /\ authenticated = [s \in Sessions |-> FALSE]
    /\ clients = {}
    /\ inbox = [s \in Sessions |-> <<>>]
    /\ tasks = <<>>
    /\ shutdown = NoShutdown

\* A fresh installation: ClientTokenManager.__init__ and an empty store.
InitAuth ==
    /\ now = 0
    /\ saving = {}
    /\ ticks = 0
    /\ tm_clients = EmptyDict
    /\ durable = EmptyDict
    /\ tokens = {}
    /\ revoked = {}
    /\ resp = NoResponse
    /\ hostCalls = {}
    /\ DuplexIdle
    /\ ClientIdle

\* The credential store and the HTTP views.  Store.async_save succeeds here.
NextAuth ==
    \/ \E d \in TickSteps : Tick(d)
    \/ \E k \in {ServerSecret, WrongSecret} : MintRegistrationToken(k)
    \/ \E n \in ClientNames, c \in ClientIds : RegisterClient(n, c, TRUE)
    \/ \E c \in ClientIds : RevokeClient(c, TRUE)
    \/ \E h \in Headers : HttpAuthCheck(h)
    \/ \E h \in Headers : HttpEntities(h)
    \/ \E h \in Headers, sd \in ServiceData, ok \in BOOLEAN :
           HttpCallService(h, sd, ok)
    \/ \E h \in Headers, n \in ClientNames : HttpRegisterClient(h, n, TRUE)
    \/ \E h \in Headers, c \in ClientIds : HttpRevokeClient(h, c, TRUE)
    \/ \E h \in Headers : HttpListClients(h)

SpecAuth == InitAuth /\ [][NextAuth]_vars

\* The clock around a token's expiry: a day before it, at it, a day after it.
ExpirySteps == {TOKEN_EXPIRATION_DAYS - 1, TOKEN_EXPIRATION_DAYS,
                TOKEN_EXPIRATION_DAYS + 1}

\* Registrations, revocations and auth checks while the clock passes a
\* token's expiry.
NextExpiry ==
    \/ \E d \in ExpirySteps : Tick(d)
    \/ \E n \in ClientNames, c \in ClientIds : RegisterClient(n, c, TRUE)
    \/ \E c \in ClientIds : RevokeClient(c, TRUE)
    \/ \E h \in Headers : HttpAuthCheck(h)

SpecExpiry == InitAuth /\ [][NextExpiry]_vars

\* ClientTokenManager.get_clients: self._clients.copy().  dict.copy() is
\* shallow: the copy has its own keys, and its values are the record objects
\* of _clients themselves, given here as references to them.
Ref(client_id) == [ref |-> client_id]
get_clients == [c \in DOMAIN tm_clients |-> Ref(c)]

\* What a holder of the returned dict can do to it: bind a key to a new
\* record, delete a key, or assign a field of one of its records.
ListingOps == {"add", "del", "set"}
OtherName == "mallory"

\* The returned dict and _clients after the operation: "add" and "del" change
\* the copy's own keys; "set" writes through the reference to the record
\* object, which is the one _clients holds.
mutate_listing(listing, op, client_id) ==
    IF op = "add"
    THEN [listing |-> DictSet(listing, client_id, [ref |-> 0]),
          table |-> tm_clients]
    ELSE IF op = "del"
    THEN [listing |-> DictDel(listing, client_id), table |-> tm_clients]
    ELSE IF client_id \in DOMAIN listing
    THEN [listing |-> listing,
          table |-> [tm_clients EXCEPT
                        ![listing[client_id].ref].client_name = OtherName]]
    ELSE [listing |-> listing, table |-> tm_clients]

\* A caller of get_clients changes the value it got.
MutateListing(op, client_id) ==
    /\ tm_clients' = mutate_listing(get_clients, op, client_id).table
    /\ UNCHANGED <<now, ticks, durable, tokens, revoked, resp, hostCalls>>
    /\ UNCHANGED duplexVars
    /\ UNCHANGED clientVars
    /\ UNCHANGED saving

\* The credential table with callers that list it and change what they got.
NextList ==
    \/ \E d \in TickSteps : Tick(d)
    \/ \E n \in ClientNames, c \in ClientIds : RegisterClient(n, c, TRUE)
    \/ \E c \in ClientIds : RevokeClient(c, TRUE)
    \/ \E h \in Headers : HttpAuthCheck(h)
    \/ \E op \in ListingOps, c \in ClientIds : MutateListing(op, c)
    \/ Reload

SpecList == InitAuth /\ [][NextList]_vars

\* ------------------------------------- credential store: calls in progress
\* A call of async_register_client or async_revoke_client that has changed
\* _clients and is suspended in `await self.async_save()`.
StoreOp(kind, client_id) == [kind |-> kind, client_id |-> client_id]
StoreOps == [kind : {"register", "revoke"}, client_id : ClientIds]

\* Calls in progress are for distinct clients.
NoCallFor(client_id) == \A op \in saving : op.client_id # client_id

\* async_register_client up to its await: the token is generated and the
\* record is stored under client_id.
RegisterBegin(name, client_id) ==
    LET token == _generate_token(client_id, now) IN
    /\ Cardinality(tokens) < MaxTokens
    /\ NoCallFor(client_id)
    /\ tm_clients' = DictSet(tm_clients, client_id,
                             ClientRecord(client_id, name, token, now))
    /\ tokens' = tokens \cup {token}
    /\ saving' = saving \cup {StoreOp("register", client_id)}
    /\ UNCHANGED <<now, ticks, durable, revoked, resp, hostCalls>>
    /\ UNCHANGED duplexVars
    /\ UNCHANGED clientVars

\* async_revoke_client up to its await: the record is deleted.
RevokeBegin(client_id) ==
    /\ client_id \in DOMAIN tm_clients
    /\ NoCallFor(client_id)
    /\ tm_clients' = DictDel(tm_clients, client_id)
    /\ revoked' = revoked \cup {client_id}
    /\ saving' = saving \cup {StoreOp("revoke", client_id)}
    /\ UNCHANGED <<now, ticks, durable, tokens, resp, hostCalls>>
    /\ UNCHANGED duplexVars
    /\ UNCHANGED clientVars

\* The await of a call ends: Store.async_save has written the dict it was
\* given, which is self._clients itself as it is at the time of the write, and
\* the call returns its result; or the write has raised and so does the call.
SaveDone(op, saveOk) ==
    /\ op \in saving
    /\ saving' = saving \ {op}
    /\ durable' = async_save(tm_clients, saveOk)
    /\ UNCHANGED <<now, ticks, tm_clients, tokens, revoked, resp, hostCalls>>
    /\ UNCHANGED duplexVars
    /\ UNCHANGED clientVars

\* The host restarts: the calls in progress are gone and async_setup loads
\* the table from the durable record (async_load).
Restart ==
    /\ saving' = {}
    /\ tm_clients' = durable
    /\ UNCHANGED <<now, ticks, durable, tokens, revoked, resp, hostCalls>>
    /\ UNCHANGED duplexVars
    /\ UNCHANGED clientVars

NextStore ==
    \/ \E d \in TickSteps : Tick(d)
    \/ \E n \in ClientNames, c \in ClientIds : RegisterBegin(n, c)
    \/ \E c \in ClientIds : RevokeBegin(c)
    \/ \E op \in StoreOps, ok \in BOOLEAN : SaveDone(op, ok)
    \/ Restart

SpecStore == InitAuth /\ [][NextStore]_vars

\* --------------------------------------------------- duplex channel
RequestIds == {"r1"}
NoRequest == "none"
NoResult == [success |-> FALSE, error |-> "none"]
NoData == _state_to_dict(NoEntity, NoSnapshot)

\* A frame handed to ws.send_json.
Frame(type, entity_id, data, entities, request_id, result) ==
    [type |-> type, entity_id |-> entity_id, data |-> data,
     entities |-> entities, request_id |-> request_id, result |-> result]
AuthOk == Frame("auth_ok", NoEntity, NoData, {}, NoRequest, NoResult)
AuthFailed == Frame("auth_failed", NoEntity, NoData, {}, NoRequest, NoResult)
ErrorFrame == Frame("error", NoEntity, NoData, {}, NoRequest, NoResult)
EntitiesFrame(entities) ==
    Frame("entities", NoEntity, NoData, entities, NoRequest, NoResult)
StateChanged(entity_id, data) ==
    Frame("state_changed", entity_id, data, {}, NoRequest, NoResult)
ServiceResponse(request_id, result) ==
    Frame("service_response", NoEntity, NoData, {}, request_id,
          [success |-> result.success, error |-> result.error])

\* A text message as the handler reads it.  "malformed" is a text that is no
\* JSON object (json.loads or data.get raises) or a frame that is no text;
\* "other" is a JSON object with a type the handler does not know.
Message(type, token, entity_id, service_data, request_id) ==
    [type |-> type, token |-> token, entity_id |-> entity_id,
     service_data |-> service_data, request_id |-> request_id]
NoServiceData == [kind |-> "dict", entity_id |-> NoEntity]
AuthMsg(token) == Message("auth", token, NoEntity, NoServiceData, NoRequest)
CallMsg(sd, rid) == Message("call_service", Garbage, NoEntity, sd, rid)
PlainMsg(type, entity_id) ==
    Message(type, Garbage, entity_id, NoServiceData, NoRequest)
Messages ==
    {AuthMsg(t) : t \in PresentableTokens}
        \cup {CallMsg(sd, rid) : sd \in ServiceData, rid \in RequestIds}
        \cup {PlainMsg("subscribe", e) : e \in Entities}
        \cup {PlainMsg(k, NoEntity) : k \in {"get_entities", "other", "malformed"}}

\* What handling one message does: the frames sent on the connection, the
\* handler's authenticated flag, whether the connection joins the registry,
\* whether the handler closes the connection and leaves its loop, and whether
\* the host action was invoked.
Outcome(frames, auth, add, close, invoked) ==
    [frames |-> frames, authenticated |-> auth, add |-> add, close |-> close,
     invoked |-> invoked]

handle_message_no_auth_gate(auth, msg, hostOk) ==
    IF msg.type = "call_service"
    THEN LET result == call_service(msg.service_data, hostOk) IN
         Outcome(IF result.raised THEN <<>>
                 ELSE <<ServiceResponse(msg.request_id, result)>>,
                 auth, FALSE, FALSE, result.invoked)
    ELSE IF msg.type = "get_entities"
    THEN Outcome(<<EntitiesFrame(get_exposed_entities)>>, auth, FALSE, FALSE, FALSE)
    ELSE Outcome(<<>>, auth, FALSE, FALSE, FALSE)

handle_message_no_close(auth, msg, hostOk) ==
    IF msg.type = "auth" /\ verify_client_token(msg.token)
    THEN Outcome(<<AuthOk>>, TRUE, TRUE, FALSE, FALSE)
    ELSE IF msg.type = "auth"
    THEN Outcome(<<AuthFailed>>, auth, FALSE, FALSE, FALSE)
    ELSE IF auth THEN Outcome(<<>>, auth, FALSE, FALSE, FALSE)
    ELSE Outcome(<<ErrorFrame>>, auth, FALSE, FALSE, FALSE)

\* EntitySyncServer.handle_websocket, the body of the loop for one message.
handle_message(auth, msg, hostOk) ==
    IF msg.type = "malformed"
    THEN Outcome(<<>>, auth, FALSE, FALSE, FALSE)
    ELSE IF msg.type = "auth"
    THEN IF verify_client_token(msg.token)
         THEN Outcome(<<AuthOk>>, TRUE, TRUE, FALSE, FALSE)
         ELSE Outcome(<<AuthFailed>>, auth, FALSE, TRUE, FALSE)
    ELSE IF auth
    THEN IF msg.type = "get_entities"
         THEN Outcome(<<EntitiesFrame(get_exposed_entities)>>, auth, FALSE,
                      FALSE, FALSE)
         ELSE IF msg.type = "subscribe"
         THEN Outcome(IF get_entity_state(msg.entity_id).has
                      THEN <<StateChanged(msg.entity_id,
                                          get_entity_state(msg.entity_id).data)>>
                      ELSE <<>>,
                      auth, FALSE, FALSE, FALSE)
         ELSE IF msg.type = "call_service"
         THEN LET result == call_service(msg.service_data, hostOk) IN
              Outcome(IF result.raised THEN <<>>
                      ELSE <<ServiceResponse(msg.request_id, result)>>,
                      auth, FALSE, FALSE, result.invoked)
         ELSE Outcome(<<>>, auth, FALSE, FALSE, FALSE)
    ELSE Outcome(<<ErrorFrame>>, auth, FALSE, FALSE, FALSE)

\* EntitySyncWebSocketView.get / handle_websocket up to the loop: ws.prepare.
Connect(s) ==
    /\ conn[s] = "idle"
    /\ conn' = [conn EXCEPT ![s] = "open"]
    /\ UNCHANGED clientVars
    /\ UNCHANGED <<saving, shutdown>>
    /\ UNCHANGED <<authVars, resp, hostCalls, states, evCount, authenticated,
                   clients, inbox, tasks>>

\* handle_websocket: one message read from an open connection and handled
\* (while the connection has received fewer than MaxInbox frames).  A failed
\* auth closes the connection, leaves the loop and runs the finally
\* clause (clients.discard).
Recv(s, msg, hostOk) ==
    LET out == handle_message(authenticated[s], msg, hostOk) IN
    /\ conn[s] = "open"
    /\ Len(inbox[s]) < MaxInbox
    /\ inbox' = [inbox EXCEPT ![s] = @ \o out.frames]
    /\ authenticated' = [authenticated EXCEPT ![s] = out.authenticated]
    /\ clients' = IF out.close THEN clients \ {s}
                  ELSE IF out.add THEN clients \cup {s} ELSE clients
    /\ conn' = IF out.close THEN [conn EXCEPT ![s] = "closed"] ELSE conn
    /\ hostCalls' = IF out.invoked
                    THEN hostCalls \cup {HostCall("ws", s, msg.service_data)}
                    ELSE hostCalls
    /\ shutdown' = IF shutdown.st = "closing" /\ out.add
                    THEN [shutdown EXCEPT !.seen = @ \cup {s}]
                    ELSE shutdown
    /\ UNCHANGED clientVars
    /\ UNCHANGED saving
    /\ UNCHANGED <<authVars, resp, states, evCount, tasks>>

\* The peer goes away or the transport breaks: sends on the connection fail
\* from now on; the handler has not left its loop yet.
Disconnect(s) ==
    /\ conn[s] = "open"
    /\ conn' = [conn EXCEPT ![s] = "broken"]
    /\ UNCHANGED clientVars
    /\ UNCHANGED <<saving, shutdown>>
    /\ UNCHANGED <<authVars, resp, hostCalls, states, evCount, authenticated,
                   clients, inbox, tasks>>

\* A handler that ends without the finally clause.
HandlerExit_no_discard(s) ==
    /\ conn[s] = "broken"
    /\ conn' = [conn EXCEPT ![s] = "closed"]
    /\ UNCHANGED clientVars
    /\ UNCHANGED <<saving, shutdown>>
    /\ UNCHANGED <<authVars, resp, hostCalls, states, evCount, authenticated,
                   clients, inbox, tasks>>

\* handle_websocket: the loop ends, the finally clause discards the session.
HandlerExit(s) ==
    /\ conn[s] = "broken"
    /\ conn' = [conn EXCEPT ![s] = "closed"]
    /\ clients' = clients \ {s}
    /\ UNCHANGED clientVars
    /\ UNCHANGED <<saving, shutdown>>
    /\ UNCHANGED <<authVars, resp, hostCalls, states, evCount, authenticated,
                   inbox, tasks>>

\* -------------------------------------------------------- broadcast
\* A broadcast task: the message built from the event, the state of the
\* iterator over self.clients (the last session returned and the set's size
\* when the iterator was created), disconnected_clients, and two histories:
\* the registry when the loop started and the sessions the frame was sent to.
\* The iteration order of the set is the order of the session numbers.
Task(entity_id, data) ==
    [entity_id |-> entity_id, data |-> data, st |-> "new", pos |-> 0,
     used |-> 0, failed |-> {}, start |-> {}, sent |-> {}]

\* state_changed_listener: a task per event of an exposed entity that carries
\* a new state.
state_changed_listener(entity_id, new_state) ==
    IF entity_id \in ExposedEntities /\ new_state.state # NoState
    THEN Append(tasks, Task(entity_id, _state_to_dict(entity_id, new_state)))
    ELSE tasks

\* The host changes (or, with NoState, removes) an entity and fires
\* EVENT_STATE_CHANGED; the listener is there until the coordinator's
\* async_shutdown has unsubscribed it.
HostStateChange(entity_id, value) ==
    LET new_state == [state |-> value, seq |-> evCount + 1] IN
    /\ evCount < MaxEvents
    /\ evCount' = evCount + 1
    /\ states' = [states EXCEPT ![entity_id] = new_state]
    /\ tasks' = IF shutdown.st = "idle"
                 THEN state_changed_listener(entity_id, new_state)
                 ELSE tasks
    /\ UNCHANGED clientVars
    /\ UNCHANGED <<saving, shutdown>>
    /\ UNCHANGED <<authVars, resp, hostCalls, conn, authenticated, clients,
                   inbox>>

Min(S) == CHOOSE x \in S : \A y \in S : x <= y

\* EntitySyncServer.broadcast_state_change from one suspension point to the
\* next: `for client in self.clients` asks the iterator of the live set for
\* its next element, which raises RuntimeError when the set's size is not the
\* size it had when the iterator was created; otherwise the frame is sent, or
\* the session is noted in disconnected_clients when the send raises; when the
\* iterator is exhausted the noted sessions are discarded.  `await
\* client.send_json` suspends when the connection's write buffer is over its
\* limit, so other handlers and other broadcasts can run between two sends.
broadcast_step(t) ==
    LET begun == IF t.st = "new"
                 THEN [t EXCEPT !.st = "iter", !.used = Cardinality(clients),
                                !.start = clients]
                 ELSE t
        rest == {s \in clients : s > begun.pos}
    IN
    IF Cardinality(clients) # begun.used
    THEN [task |-> [begun EXCEPT !.st = "crashed"], to |-> 0,
          registry |-> clients]
    ELSE IF rest = {}
    THEN [task |-> [begun EXCEPT !.st = "done"], to |-> 0,
          registry |-> clients \ begun.failed]
    ELSE IF conn[Min(rest)] = "open"
    THEN [task |-> [begun EXCEPT !.pos = Min(rest), !.sent = @ \cup {Min(rest)}],
          to |-> Min(rest), registry |-> clients]
    ELSE [task |-> [begun EXCEPT !.pos = Min(rest), !.failed = @ \cup {Min(rest)}],
          to |-> 0, registry |-> clients]

\* A broadcast task runs to its next suspension point.  Tasks start in the
\* order they were created (hass.async_create_task).
BroadcastStep(i) ==
    LET step == broadcast_step(tasks[i]) IN
    /\ tasks[i].st \in {"new", "iter"}
    /\ \A j \in 1..(i - 1) : tasks[j].st # "new"
    /\ tasks' = [tasks EXCEPT ![i] = step.task]
    /\ clients' = step.registry
    /\ inbox' = IF step.to = 0 THEN inbox
                ELSE [inbox EXCEPT ![step.to] =
                         Append(@, StateChanged(tasks[i].entity_id, tasks[i].data))]
    /\ UNCHANGED clientVars
    /\ UNCHANGED <<saving, shutdown>>
    /\ UNCHANGED <<authVars, resp, hostCalls, states, evCount, conn,
                   authenticated>>

\* ------------------------------------------------- server shutdown
\* async_shutdown from one suspension point to the next, with the sessions of
\* the list still to visit (in the order of the session numbers): closing a
\* connection that is closed already returns at once; `await client.close()`
\* of an open one sends the close frame and waits for the peer's, and in the
\* meantime handlers and broadcasts run; after the last one
\* self.clients.clear() follows without a suspension.
shutdown_step(todo, seen) ==
    LET live == {s \in todo : conn[s] = "open"} IN
    IF live = {}
    THEN [sd |-> [st |-> "done", todo |-> {}, seen |-> seen],
          closing |-> 0, registry |-> {}]
    ELSE [sd |-> [st |-> "closing", todo |-> {s \in todo : s > Min(live)},
                  seen |-> seen],
          closing |-> Min(live), registry |-> clients]

\* The step's effect: the connection being closed fails its sends from now
\* on and its handler leaves its loop later.
ApplyShutdown(step) ==
    /\ shutdown' = step.sd
    /\ clients' = step.registry
    /\ conn' = IF step.closing = 0 THEN conn
               ELSE [conn EXCEPT ![step.closing] = "broken"]
    /\ UNCHANGED clientVars
    /\ UNCHANGED saving
    /\ UNCHANGED <<authVars, resp, hostCalls, states, evCount, authenticated,
                   inbox, tasks>>

\* EntitySyncCoordinator.async_shutdown unsubscribes the state listener and
\* calls EntitySyncServer.async_shutdown, which takes list(self.clients).
ServerShutdownBegin ==
    /\ shutdown.st = "idle"
    /\ ApplyShutdown(shutdown_step(clients, clients))

\* async_shutdown: the close it awaited has returned.
ServerShutdownResume ==
    /\ shutdown.st = "closing"
    /\ ApplyShutdown(shutdown_step(shutdown.todo, shutdown.seen))

\* The server with sessions that connect, authenticate and go away, with
\* broadcasts, and its shutdown.
NextShutdown ==
    \/ \E s \in Sessions : Connect(s)
    \/ \E s \in Sessions, t \in PresentableTokens : Recv(s, AuthMsg(t), TRUE)
    \/ \E s \in Sessions : Disconnect(s)
    \/ \E s \in Sessions : HandlerExit(s)
    \/ \E e \in Entities, v \in Values \cup {NoState} : HostStateChange(e, v)
    \/ \E i \in 1..Len(tasks) : BroadcastStep(i)
    \/ ServerShutdownBegin
    \/ ServerShutdownResume

\* ------------------------------------------------ server: Init, Next
\* The server after async_setup, with one client in the store it loaded.
StoredToken == _generate_token(1, 0)
StoredClients == DictSet(EmptyDict, 1, ClientRecord(1, "alpha", StoredToken, 0))

Init ==
    /\ now = 0
    /\ saving = {}
    /\ ticks = 0
    /\ tm_clients = StoredClients
    /\ durable = StoredClients
    /\ tokens = {StoredToken}
    /\ revoked = {}
    /\ resp = NoResponse
    /\ hostCalls = {}
    /\ DuplexIdle
    /\ ClientIdle

Next ==
    \/ \E s \in Sessions : Connect(s)
    \/ \E s \in Sessions, m \in Messages, ok \in BOOLEAN : Recv(s, m, ok)
    \/ \E s \in Sessions : Disconnect(s)
    \/ \E s \in Sessions : HandlerExit(s)
    \/ \E e \in Entities, v \in Values \cup {NoState} : HostStateChange(e, v)
    \/ \E i \in 1..Len(tasks) : BroadcastStep(i)

Spec == Init /\ [][Next]_vars

\* The two ways to request a host action: the duplex channel and the HTTP view.
NextCall ==
    \/ \E s \in Sessions : Connect(s)
    \/ \E s \in Sessions, m \in Messages, ok \in BOOLEAN : Recv(s, m, ok)
    \/ \E s \in Sessions : Disconnect(s)
    \/ \E s \in Sessions : HandlerExit(s)
    \/ \E h \in Headers, sd \in ServiceData, ok \in BOOLEAN :
           HttpCallService(h, sd, ok)

SpecCall == Init /\ [][NextCall]_vars

SpecShutdown == Init /\ [][NextShutdown]_vars

\* Sessions of a registered client, broadcasts, and the client's revocation.
NextRevoke ==
    \/ \E s \in Sessions : Connect(s)
    \/ \E s \in Sessions, m \in Messages, ok \in BOOLEAN : Recv(s, m, ok)
    \/ \E s \in Sessions : Disconnect(s)
    \/ \E e \in Entities, v \in Values \cup {NoState} : HostStateChange(e, v)
    \/ \E i \in 1..Len(tasks) : BroadcastStep(i)
    \/ \E c \in ClientIds : RevokeClient(c, TRUE)

SpecRevoke == Init /\ [][NextRevoke]_vars

\* Registration over HTTP followed by a duplex session, from an empty store.
NextRound ==
    \/ \E d \in TickSteps : Tick(d)
    \/ \E k \in {ServerSecret, WrongSecret} : MintRegistrationToken(k)
    \/ \E h \in Headers, n \in ClientNames : HttpRegisterClient(h, n, TRUE)
    \/ \E c \in ClientIds : RevokeClient(c, TRUE)
    \/ \E s \in Sessions : Connect(s)
    \/ \E s \in Sessions, m \in Messages, ok \in BOOLEAN : Recv(s, m, ok)

SpecRound == InitAuth /\ [][NextRound]_vars

\* ------------------------------------------------------------ client
\* What a connection attempt meets: ws_connect raises on a closed session or
\* an unreachable server; a reachable server answers the auth frame with
\* auth_ok or with auth_failed.
ServerReply ==
    IF phase = "stopped" \/ ~reachable THEN "error"
    ELSE IF tokenOk THEN "auth_ok" ELSE "auth_failed"

\* entry.options[CONF_IMPORTED_ENTITIES], in the order of the list.
ImportedEntities == <<"light.kitchen", "lock.door">>

\* The sends of one _subscribe_to_entities that raise: any of them.
SendFailures == SUBSET (1..Len(ImportedEntities))

SubscribeSend(entity_id, sent) == [entity_id |-> entity_id, sent |-> sent]

_subscribe_to_entities_stops_at_error(failed) ==
    LET last == IF failed = {} THEN Len(ImportedEntities) ELSE Min(failed) IN
    [i \in 1..last |-> SubscribeSend(ImportedEntities[i], i \notin failed)]

\* EntitySyncClient._subscribe_to_entities: one send_json per entity of the
\* list, in the order of the list; the exception of a send is caught inside
\* the loop, which goes on with the next entity.
_subscribe_to_entities(failed) ==
    [i \in 1..Len(ImportedEntities) |->
        SubscribeSend(ImportedEntities[i], i \notin failed)]

\* EntitySyncClient._connect, by the reply it gets; task is what becomes of
\* _reconnect_task when the caller of _connect is the task it names.  After
\* auth_ok the subscribes are sent and then the listen task is created.
_connect(reply, task, failed) ==
    IF reply = "auth_ok"
    THEN [connected |-> TRUE, ws |-> "open",
          subscribes |-> _subscribe_to_entities(failed),
          listen |-> "running", reconnect |-> task]
    ELSE IF reply = "auth_failed"
    THEN [connected |-> FALSE, ws |-> "closed", subscribes |-> <<>>,
          listen |-> _listen_task, reconnect |-> task]
    ELSE [connected |-> FALSE, ws |-> _ws, subscribes |-> <<>>,
          listen |-> _listen_task,
          reconnect |-> ReconnectTask("sleeping", RECONNECT_DELAY)]

ApplyConnect(c) ==
    /\ _connected' = c.connected
    /\ _ws' = c.ws
    /\ subscribe_sends' = c.subscribes
    /\ _listen_task' = c.listen
    /\ _reconnect_task' = c.reconnect

serverVars == <<now, ticks, tm_clients, durable, tokens, revoked, resp,
                hostCalls, states, evCount, conn, authenticated, clients,
                inbox, tasks, saving, shutdown>>

\* EntitySyncClient.async_setup: the first _connect, awaited by the setup.
SetupConnect ==
    /\ phase = "setup"
    /\ phase' = "running"
    /\ \E failed \in SendFailures :
           ApplyConnect(_connect(ServerReply, _reconnect_task, failed))
    /\ UNCHANGED <<last_dispatch, _entity_data, serverVars, reachable, tokenOk, _pending_requests, future,
                   call, returned, _entity_states, rd>>

\* _reconnect_later: asyncio.sleep(30) is over, the task enters _connect.
\* (The sleep outlasts the closes async_shutdown awaits.)
ReconnectWake ==
    /\ _reconnect_task.st = "sleeping"
    /\ phase # "stopping"
    /\ _reconnect_task' = [_reconnect_task EXCEPT !.st = "running"]
    /\ UNCHANGED <<last_dispatch, _entity_data, serverVars, phase, reachable, tokenOk, _connected, _ws,
                   _listen_task, _pending_requests, future, call, returned,
                   _entity_states, rd, subscribe_sends>>

\* The _connect a reconnect task runs (from _reconnect_later or from
\* async_reconnect_if_needed) comes to its end.
ReconnectConnect ==
    /\ _reconnect_task.st = "running"
    /\ \E failed \in SendFailures :
           ApplyConnect(_connect(ServerReply,
                                 [_reconnect_task EXCEPT !.st = "done"],
                                 failed))
    /\ UNCHANGED <<last_dispatch, _entity_data, serverVars, phase, reachable, tokenOk, _pending_requests,
                   future, call, returned, _entity_states, rd>>

\* async_reconnect_if_needed without the test of _reconnect_task.
async_reconnect_if_needed_unguarded ==
    IF ~_connected THEN ReconnectTask("running", 0) ELSE _reconnect_task

\* EntitySyncClient.async_reconnect_if_needed
async_reconnect_if_needed ==
    IF ~_connected /\ _reconnect_task = NoTask
    THEN ReconnectTask("running", 0)
    ELSE _reconnect_task

\* EntitySyncCoordinator._async_update_data: the periodic health check.
HealthCheck ==
    /\ phase = "running"
    /\ _reconnect_task' = async_reconnect_if_needed
    /\ UNCHANGED <<last_dispatch, _entity_data, serverVars, phase, reachable, tokenOk, _connected, _ws,
                   _listen_task, _pending_requests, future, call, returned,
                   _entity_states, rd, subscribe_sends>>

\* The connection is lost; the listen loop has not noticed yet.
Drop ==
    /\ _ws = "open"
    /\ _ws' = "dropped"
    /\ UNCHANGED <<last_dispatch, _entity_data, serverVars, phase, reachable, tokenOk, _connected,
                   _reconnect_task, _listen_task, _pending_requests, future,
                   call, returned, _entity_states, rd, subscribe_sends>>

\* The server goes away or comes back; the client's record is revoked or
\* registered again under its id.
ServerChange(up, valid) ==
    /\ phase \in {"setup", "running"}
    /\ reachable' = up
    /\ tokenOk' = valid
    /\ UNCHANGED <<last_dispatch, _entity_data, serverVars, phase, _connected, _ws, _reconnect_task,
                   _listen_task, _pending_requests, future, call, returned,
                   _entity_states, rd, subscribe_sends>>

\* A frame that is no JSON object: data.get raises AttributeError.
NotAnObject == Frame("malformed", NoEntity, NoData, {}, NoRequest, NoResult)

_handle_message_no_done_check(data, dispatchOk) ==
    IF data.type = "service_response" /\ data.request_id \in _pending_requests
    THEN [cache |-> _entity_states,
          pending |-> _pending_requests \ {data.request_id},
          future |-> [future EXCEPT ![data.request_id] =
                         Future("result", data.request_id, data.result)],
          raised |-> FALSE]
    ELSE [cache |-> _entity_states, pending |-> _pending_requests,
          future |-> future, raised |-> FALSE]

\* EntitySyncClient._handle_message (and what _listen_for_messages does with
\* what it raises): a state_changed frame with data overwrites the cache
\* entry and then dispatches the update signal, which may raise; a
\* service_response pops the entry of its request_id and completes the future
\* unless it is done.
_handle_message(data, dispatchOk) ==
    IF data.type = "malformed"
    THEN [cache |-> _entity_states, pending |-> _pending_requests,
          future |-> future, raised |-> TRUE]
    ELSE IF data.type = "state_changed" /\ data.data.state # NoState
    THEN [cache |-> [_entity_states EXCEPT ![data.entity_id] = data.data],
          pending |-> _pending_requests, future |-> future,
          raised |-> ~dispatchOk]
    ELSE IF data.type = "service_response"
               /\ data.request_id \in _pending_requests
    THEN [cache |-> _entity_states,
          pending |-> _pending_requests \ {data.request_id},
          future |-> IF future[data.request_id].st = "pending"
                     THEN [future EXCEPT ![data.request_id] =
                              Future("result", data.request_id, data.result)]
                     ELSE future,
          raised |-> FALSE]
    ELSE [cache |-> _entity_states, pending |-> _pending_requests,
          future |-> future, raised |-> FALSE]

\* What a state_changed frame does to the light entity: the cache's entry is
\* now a new dict, so the entity's dict is the cache's no more; when the
\* dispatch works, EntitySyncEntity._handle_update takes the cache's new dict.
_handle_update(data, dispatchOk) ==
    IF /\ data.type = "state_changed"
       /\ data.data.state # NoState
       /\ data.entity_id = LightEntity
       /\ _entity_data.exists
    THEN IF dispatchOk THEN EntityData(data.data.state, TRUE)
         ELSE [_entity_data EXCEPT !.shared = FALSE]
    ELSE _entity_data

\* _listen_for_messages: one frame read and handled; an exception from the
\* handler ends the loop, whose finally clause schedules a reconnect.
ListenCore(data, dispatchOk) ==
    LET h == _handle_message(data, dispatchOk) IN
    /\ _listen_task = "running"
    /\ _ws = "open"
    /\ _entity_states' = h.cache
    /\ _pending_requests' = h.pending
    /\ future' = h.future
    /\ _listen_task' = IF h.raised THEN "done" ELSE _listen_task
    /\ _connected' = IF h.raised THEN FALSE ELSE _connected
    /\ _reconnect_task' = IF h.raised
                          THEN ReconnectTask("sleeping", RECONNECT_DELAY)
                          ELSE _reconnect_task
    /\ _entity_data' = _handle_update(data, dispatchOk)
    /\ UNCHANGED <<phase, reachable, tokenOk, _ws, call, returned,
                   subscribe_sends>>

\* Frames a server can send to a listening client: the response to a request
\* that was sent, a response with an id no request has, a state_changed frame,
\* a frame of a type the client ignores, a text that is no JSON object.
OkValue == [success |-> TRUE, error |-> "none"]
Answerable == {r \in ClientRequests : call[r] \notin {"unused", "sending"}}
ClientFrames ==
    {ServiceResponse(r, OkValue) : r \in Answerable \cup {UnknownRequest}}
        \cup {StateChanged("light.kitchen",
                           _state_to_dict("light.kitchen",
                                          [state |-> "on", seq |-> 1]))}
        \cup {ErrorFrame, NotAnObject}

\* The listen loop handles a frame of a server outside the model.
Listen(data, dispatchOk) ==
    /\ ListenCore(data, dispatchOk)
    /\ UNCHANGED <<serverVars, rd, last_dispatch>>

\* _listen_for_messages: the loop ends (the connection is closed or lost, or
\* the task is cancelled) and the finally clause runs.
ListenExit ==
    /\ \/ _listen_task = "running" /\ _ws \in {"dropped", "closed"}
       \/ _listen_task = "cancelling"
    /\ _listen_task' = "done"
    /\ _connected' = FALSE
    /\ _reconnect_task' = ReconnectTask("sleeping", RECONNECT_DELAY)
    /\ UNCHANGED <<last_dispatch, _entity_data, serverVars, phase, reachable, tokenOk, _ws,
                   _pending_requests, future, call, returned, _entity_states,
                   rd, subscribe_sends>>

\* ------------------------------------------- client: service requests
TimeoutResult == CallResult("timeout", FALSE, "Timeout")

\* async_call_service up to its first await.  Over the duplex channel
\* (use_websocket, _connected and _ws): the future is created and entered in
\* the table, and send_json begins.  Otherwise the HTTP fallback, which
\* returns the server's answer or a failure dict.
CallServiceCore(r, use_websocket, httpOk) ==
    /\ phase \in {"running", "stopping", "stopped"}
    /\ call[r] = "unused"
    /\ \A q \in ClientRequests : q < r => call[q] # "unused"
    /\ IF use_websocket /\ _connected /\ _ws # "none"
       THEN /\ future' = [future EXCEPT ![r] = PendingFuture]
            /\ _pending_requests' = _pending_requests \cup {r}
            /\ call' = [call EXCEPT ![r] = "sending"]
            /\ UNCHANGED returned
       ELSE /\ call' = [call EXCEPT ![r] = "returned"]
            /\ returned' = [returned EXCEPT ![r] =
                               CallResult("http", httpOk /\ phase # "stopped",
                                          "none")]
            /\ UNCHANGED <<future, _pending_requests>>
    /\ UNCHANGED <<_entity_data, serverVars, phase, reachable, tokenOk, _connected, _ws,
                   _reconnect_task, _listen_task, _entity_states,
                   rd, subscribe_sends>>

\* async_call_service called by something other than async_set_entity_state.
CallService(r, use_websocket, httpOk) ==
    /\ CallServiceCore(r, use_websocket, httpOk)
    /\ UNCHANGED last_dispatch

\* async_set_entity_state up to the first await of its async_call_service
\* (use_websocket has its default, True).
SetEntityState(entity_id, kwargs, r, httpOk) ==
    /\ CallServiceCore(r, TRUE, httpOk)
    /\ Len(async_set_entity_state(entity_id, kwargs)) = 1
    /\ last_dispatch' = [entity_id |-> entity_id, kwargs |-> kwargs,
                         calls |-> async_set_entity_state(entity_id, kwargs)]

\* async_call_service: send_json returns and wait_for begins, or send_json
\* raises (it does on a closed connection, it may on a lost one) and the
\* except clause pops the entry and returns the failure.
SendDone(r, sendOk) ==
    /\ call[r] = "sending"
    /\ sendOk => _ws \in {"open", "dropped"}
    /\ ~sendOk => _ws # "open"
    /\ IF sendOk
       THEN /\ call' = [call EXCEPT ![r] = "waiting"]
            /\ UNCHANGED <<_pending_requests, returned>>
       ELSE /\ call' = [call EXCEPT ![r] = "returned"]
            /\ _pending_requests' = _pending_requests \ {r}
            /\ returned' = [returned EXCEPT ![r] =
                               CallResult("error", FALSE, "send failed")]
    /\ UNCHANGED <<last_dispatch, _entity_data, serverVars, phase, reachable, tokenOk, _connected, _ws,
                   _reconnect_task, _listen_task, future, _entity_states,
                   rd, subscribe_sends>>

\* async_call_service: wait_for returns the result the listen loop has set.
AwaitResult(r) ==
    /\ call[r] = "waiting"
    /\ future[r].st = "result"
    /\ call' = [call EXCEPT ![r] = "returned"]
    /\ returned' = [returned EXCEPT ![r] =
                       CallResult("response", future[r].value.success,
                                  future[r].value.error)]
    /\ UNCHANGED <<last_dispatch, _entity_data, serverVars, phase, reachable, tokenOk, _connected, _ws,
                   _reconnect_task, _listen_task, _pending_requests, future,
                   _entity_states, rd, subscribe_sends>>

\* asyncio.wait_for(future, timeout=10.0): the deadline passes with the future
\* pending; the future is cancelled and TimeoutError is about to be raised in
\* the caller, which has not run yet.
Timeout(r) ==
    /\ call[r] = "waiting"
    /\ future[r].st = "pending"
    /\ future' = [future EXCEPT ![r] = CancelledFuture]
    /\ call' = [call EXCEPT ![r] = "timedout"]
    /\ UNCHANGED <<last_dispatch, _entity_data, serverVars, phase, reachable, tokenOk, _connected, _ws,
                   _reconnect_task, _listen_task, _pending_requests, returned,
                   _entity_states, rd, subscribe_sends>>

on_timeout_no_pop(r) == _pending_requests

\* async_call_service, except asyncio.TimeoutError:
\* self._pending_requests.pop(request_id, None)
on_timeout(r) == _pending_requests \ {r}

\* async_call_service: the caller resumes with TimeoutError.
TimeoutResume(r) ==
    /\ call[r] = "timedout"
    /\ _pending_requests' = on_timeout(r)
    /\ call' = [call EXCEPT ![r] = "returned"]
    /\ returned' = [returned EXCEPT ![r] = TimeoutResult]
    /\ UNCHANGED <<last_dispatch, _entity_data, serverVars, phase, reachable, tokenOk, _connected, _ws,
                   _reconnect_task, _listen_task, future, _entity_states,
                   rd, subscribe_sends>>

\* The task that called async_call_service is cancelled while it is in
\* send_json or in wait_for (which cancels the future it waits on):
\* CancelledError is no Exception, so neither except clause runs.
CancelCaller(r) ==
    /\ call[r] \in {"sending", "waiting"}
    /\ future[r].st = "pending"
    /\ future' = [future EXCEPT ![r] =
                     IF call[r] = "waiting" THEN CancelledFuture ELSE @]
    /\ call' = [call EXCEPT ![r] = "cancelled"]
    /\ returned' = [returned EXCEPT ![r] =
                       CallResult("task_cancelled", FALSE, "CancelledError")]
    /\ UNCHANGED <<last_dispatch, _entity_data, serverVars, phase, reachable, tokenOk, _connected, _ws,
                   _reconnect_task, _listen_task, _pending_requests,
                   _entity_states, rd, subscribe_sends>>

\* async_call_service: wait_for finds its future cancelled (by
\* async_shutdown) and raises CancelledError, which the caller lets through.
FutureCancelled(r) ==
    /\ call[r] = "waiting"
    /\ future[r].st = "cancelled"
    /\ call' = [call EXCEPT ![r] = "cancelled"]
    /\ returned' = [returned EXCEPT ![r] =
                       CallResult("future_cancelled", FALSE, "CancelledError")]
    /\ UNCHANGED <<last_dispatch, _entity_data, serverVars, phase, reachable, tokenOk, _connected, _ws,
                   _reconnect_task, _listen_task, _pending_requests, future,
                   _entity_states, rd, subscribe_sends>>

\* ---------------------------------------------------- client: shutdown
cancel_pending_none == future

\* async_shutdown: future.cancel() for every future of the table not done.
cancel_pending ==
    [r \in ClientRequests |->
        IF r \in _pending_requests /\ future[r].st = "pending"
        THEN CancelledFuture ELSE future[r]]

\* task.cancel(): a task that has ended is left as it is.
cancel_task(task) ==
    IF task.st \in {"sleeping", "running"}
    THEN [task EXCEPT !.st = "cancelled"] ELSE task

\* EntitySyncClient.async_shutdown up to its first await (self._ws.close()).
ShutdownBegin ==
    /\ phase = "running"
    /\ phase' = "stopping"
    /\ _connected' = FALSE
    /\ _reconnect_task' = cancel_task(_reconnect_task)
    /\ _listen_task' = IF _listen_task = "running" THEN "cancelling"
                       ELSE _listen_task
    /\ future' = cancel_pending
    /\ _pending_requests' = {}
    /\ _ws' = IF _ws = "none" THEN _ws ELSE "closed"
    /\ UNCHANGED <<last_dispatch, _entity_data, serverVars, reachable, tokenOk, call, returned,
                   _entity_states, rd, subscribe_sends>>

\* async_shutdown: the connection and the session are closed; it returns.
ShutdownEnd ==
    /\ phase = "stopping"
    /\ phase' = "stopped"
    /\ UNCHANGED <<last_dispatch, _entity_data, serverVars, reachable, tokenOk, _connected, _ws,
                   _reconnect_task, _listen_task, _pending_requests, future,
                   call, returned, _entity_states, rd, subscribe_sends>>

\* ------------------------------------------------ client: Init, Next
\* EntitySyncCoordinator.async_setup in client mode: the client is built and
\* async_setup is at its _connect.  The server is outside this process.
InitClient ==
    /\ now = 0
    /\ saving = {}
    /\ ticks = 0
    /\ tm_clients = EmptyDict
    /\ durable = EmptyDict
    /\ tokens = {}
    /\ revoked = {}
    /\ resp = NoResponse
    /\ hostCalls = {}
    /\ DuplexIdle
    /\ phase = "setup"
    /\ reachable \in BOOLEAN
    /\ tokenOk \in BOOLEAN
    /\ ClientFields

NextClient ==
    \/ SetupConnect
    \/ ReconnectWake
    \/ ReconnectConnect
    \/ HealthCheck
    \/ Drop
    \/ \E up \in BOOLEAN, valid \in BOOLEAN : ServerChange(up, valid)
    \/ \E data \in ClientFrames, ok \in BOOLEAN : Listen(data, ok)
    \/ ListenExit
    \/ \E r \in ClientRequests, ws \in BOOLEAN, ok \in BOOLEAN :
           CallService(r, ws, ok)
    \/ \E r \in ClientRequests, ok \in BOOLEAN : SendDone(r, ok)
    \/ \E r \in ClientRequests : AwaitResult(r)
    \/ \E r \in ClientRequests : Timeout(r)
    \/ \E r \in ClientRequests : TimeoutResume(r)
    \/ \E r \in ClientRequests : CancelCaller(r)
    \/ \E r \in ClientRequests : FutureCancelled(r)
    \/ ShutdownBegin
    \/ ShutdownEnd

SpecClient == InitClient /\ [][NextClient]_vars

\* The event loop runs every task that can run, every timer fires, and the
\* health check keeps coming; what the server, the network, the callers and
\* the operator do is up to them.
ClientFairness ==
    /\ WF_vars(SetupConnect)
    /\ WF_vars(ReconnectWake)
    /\ WF_vars(ReconnectConnect)
    /\ WF_vars(HealthCheck)
    /\ WF_vars(ListenExit)
    /\ \A r \in ClientRequests :
           /\ WF_vars(\E ok \in BOOLEAN : SendDone(r, ok))
           /\ WF_vars(AwaitResult(r))
           /\ WF_vars(Timeout(r))
           /\ WF_vars(TimeoutResume(r))
           /\ WF_vars(FutureCancelled(r))

SpecClientFair == SpecClient /\ ClientFairness

\* Action dispatch on a client that connects, loses its connection and has
\* its requests time out.
NextDispatch ==
    \/ SetupConnect
    \/ Drop
    \/ \E r \in ClientRequests \cap (1..MaxDispatches) :
           /\ call[r] = "unused"
           /\ \E e \in DispatchIds, kw \in KwargsSet, ok \in BOOLEAN :
                  SetEntityState(e, kw, r, ok)
    \/ \E r \in ClientRequests, ok \in BOOLEAN : SendDone(r, ok)
    \/ \E r \in ClientRequests : Timeout(r)
    \/ \E r \in ClientRequests : TimeoutResume(r)

SpecDispatch == InitClient /\ [][NextDispatch]_vars

\* ------------------------------------------------ client: the light
\* light.async_setup_entry: a SyncedLight is made for the imported light when
\* the cache has an entry for it, with the cache's dict as its _entity_data.
AddLight ==
    /\ phase = "running"
    /\ ~_entity_data.exists
    /\ _entity_states[LightEntity] # NoCached
    /\ _entity_data' = EntityData(_entity_states[LightEntity].state, TRUE)
    /\ UNCHANGED <<last_dispatch, serverVars, phase, reachable, tokenOk,
                   _connected, _ws,
                   _reconnect_task, _listen_task, _pending_requests, future,
                   call, returned, _entity_states, rd, subscribe_sends>>

\* SyncedLight.async_turn_on / async_turn_off after the await of
\* async_set_entity_state (one of the requests of CallService, whatever its
\* result was): self._entity_data["state"] = value, an assignment to the
\* dict the entity holds.
LightTurn(value) ==
    /\ _entity_data.exists
    /\ \E r \in ClientRequests : call[r] = "returned"
    /\ _entity_data' = [_entity_data EXCEPT !.state = value]
    /\ _entity_states' = IF _entity_data.shared
                         THEN [_entity_states EXCEPT ![LightEntity].state = value]
                         ELSE _entity_states
    /\ UNCHANGED <<last_dispatch, serverVars, phase, reachable, tokenOk,
                   _connected, _ws,
                   _reconnect_task, _listen_task, _pending_requests, future,
                   call, returned, rd, subscribe_sends>>

\* The client with its light entity: connects and reconnects, frames,
\* requests and their timeouts, the entity's actions.
NextLight ==
    \/ SetupConnect
    \/ ReconnectWake
    \/ ReconnectConnect
    \/ Drop
    \/ \E data \in ClientFrames, ok \in BOOLEAN : Listen(data, ok)
    \/ ListenExit
    \/ \E r \in ClientRequests, ws \in BOOLEAN, ok \in BOOLEAN :
           CallService(r, ws, ok)
    \/ \E r \in ClientRequests, ok \in BOOLEAN : SendDone(r, ok)
    \/ \E r \in ClientRequests : AwaitResult(r)
    \/ \E r \in ClientRequests : Timeout(r)
    \/ \E r \in ClientRequests : TimeoutResume(r)
    \/ AddLight
    \/ \E v \in {"on", "off"} : LightTurn(v)

SpecLight == InitClient /\ [][NextLight]_vars

\* ------------------------------------------- server and client together
\* The session of the server over which the client of this model is
\* connected (the last one in the registry's iteration order).
ClientSession == MaxSessions

\* _listen_for_messages reads the next frame the server sent on the session.
ListenServer(dispatchOk) ==
    /\ rd < Len(inbox[ClientSession])
    /\ ListenCore(inbox[ClientSession][rd + 1], dispatchOk)
    /\ rd' = rd + 1
    /\ UNCHANGED <<serverVars, last_dispatch>>

\* The server with client 1 stored, and the client after its async_setup: it
\* has sent its token, read auth_ok, and its listen loop runs.
InitSync ==
    /\ now = 0
    /\ saving = {}
    /\ ticks = 0
    /\ tm_clients = StoredClients
    /\ durable = StoredClients
    /\ tokens = {StoredToken}
    /\ revoked = {}
    /\ resp = NoResponse
    /\ hostCalls = {}
    /\ states = [e \in Entities |-> NoSnapshot]
    /\ evCount = 0
    /\ conn = [s \in Sessions |-> IF s = ClientSession THEN "open" ELSE "idle"]
    /\ authenticated = [s \in Sessions |-> s = ClientSession]
    /\ clients = {ClientSession}
    /\ inbox = [s \in Sessions |-> IF s = ClientSession THEN <<AuthOk>>
                                   ELSE <<>>]
    /\ tasks = <<>>
    /\ shutdown = NoShutdown
    /\ phase = "running"
    /\ reachable = TRUE
    /\ tokenOk = TRUE
    /\ _connected = TRUE
    /\ _ws = "open"
    /\ _reconnect_task = NoTask
    /\ _listen_task = "running"
    /\ _pending_requests = {}
    /\ future = [r \in ClientRequests |-> NoFuture]
    /\ call = [r \in ClientRequests |-> "unused"]
    /\ returned = [r \in ClientRequests |-> NoOutcome]
    /\ _entity_states = [e \in Entities |-> NoCached]
    /\ rd = 1
    /\ subscribe_sends = _subscribe_to_entities({})
    /\ _entity_data = NoEntityData
    /\ last_dispatch = NoDispatch

OtherSessions == Sessions \ {ClientSession}

\* The other sessions come and go, the host changes entities, the broadcasts
\* run, the client listens; its own connection stays up.
NextSync ==
    \/ \E s \in OtherSessions : Connect(s)
    \/ \E s \in OtherSessions, m \in Messages, ok \in BOOLEAN : Recv(s, m, ok)
    \/ \E s \in OtherSessions : Disconnect(s)
    \/ \E s \in OtherSessions : HandlerExit(s)
    \/ \E e \in Entities, v \in Values \cup {NoState} : HostStateChange(e, v)
    \/ \E i \in 1..Len(tasks) : BroadcastStep(i)
    \/ \E ok \in BOOLEAN : ListenServer(ok)

SpecSync == InitSync /\ [][NextSync]_vars

\* Every broadcast task that can run does, and so does the listen loop.
SpecSyncFair ==
    /\ SpecSync
    /\ \A i \in 1..MaxEvents : WF_vars(i <= Len(tasks) /\ BroadcastStep(i))
    /\ WF_vars(\E ok \in BOOLEAN : ListenServer(ok))

\* ------------------------------------------- service requests end to end
\* The service_data async_set_entity_state builds: always a JSON object.
ClientServiceData == {sd \in ServiceData : sd.kind = "dict"}

\* The service_response frames with request_id r the server has sent on the
\* client's session.
Responses(r) ==
    {i \in 1..Len(inbox[ClientSession]) :
        /\ inbox[ClientSession][i].type = "service_response"
        /\ inbox[ClientSession][i].request_id = r}

\* handle_websocket on the client's session: the call_service frame of request
\* r, which the client has sent, is read and handled.
ServeCall(r, sd, hostOk) ==
    LET out == handle_message(authenticated[ClientSession], CallMsg(sd, r),
                              hostOk)
    IN
    /\ r \in Answerable
    /\ Responses(r) = {}
    /\ conn[ClientSession] = "open"
    /\ inbox' = [inbox EXCEPT ![ClientSession] = @ \o out.frames]
    /\ hostCalls' = IF out.invoked
                    THEN hostCalls \cup {HostCall("ws", ClientSession, sd)}
                    ELSE hostCalls
    /\ UNCHANGED clientVars
    /\ UNCHANGED <<saving, shutdown>>
    /\ UNCHANGED <<authVars, resp, states, evCount, conn, authenticated,
                   clients, tasks>>

\* The client's requests go to the server and come back; other sessions send
\* what they like; the client's connection stays up.
NextRpc ==
    \/ \E s \in OtherSessions : Connect(s)
    \/ \E s \in OtherSessions, m \in Messages, ok \in BOOLEAN : Recv(s, m, ok)
    \/ \E r \in ClientRequests, ws \in BOOLEAN, ok \in BOOLEAN :
           CallService(r, ws, ok)
    \/ \E r \in ClientRequests, ok \in BOOLEAN : SendDone(r, ok)
    \/ \E r \in ClientRequests, sd \in ClientServiceData, ok \in BOOLEAN :
           ServeCall(r, sd, ok)
    \/ \E ok \in BOOLEAN : ListenServer(ok)
    \/ \E r \in ClientRequests : AwaitResult(r)
    \/ \E r \in ClientRequests : Timeout(r)
    \/ \E r \in ClientRequests : TimeoutResume(r)
    \/ \E r \in ClientRequests : CancelCaller(r)

SpecRpc == InitSync /\ [][NextRpc]_vars

\* ------------------------------------------------------------ claims
\* What the HTTP contract calls a valid bearer: the 'Bearer ' prefix and a
\* token signed by the server, unexpired, of a registered client.
ValidBearer(h) ==
    /\ h.scheme = "Bearer"
    /\ h.token.sig = ServerSecret
    /\ now < h.token.exp
    /\ h.token.client_id \in DOMAIN tm_clients

\* An unauthorized answer without any effect; no verification for a header
\* that lacks the prefix.
Rejected(h) ==
    /\ resp'.status = HTTP_UNAUTHORIZED
    /\ ~resp'.success
    /\ resp'.data = {}
    /\ resp'.token = Garbage
    /\ h.scheme # "Bearer" => ~resp'.verified
    /\ UNCHANGED <<tm_clients, durable, tokens, revoked, hostCalls>>
    /\ UNCHANGED duplexVars

\* A request with header h to one of the five bearer-protected views.
ProtectedRequest(h) ==
    \/ HttpAuthCheck(h)
    \/ HttpEntities(h)
    \/ HttpListClients(h)
    \/ \E sd \in ServiceData, ok \in BOOLEAN : HttpCallService(h, sd, ok)
    \/ \E c \in ClientIds, ok \in BOOLEAN : HttpRevokeClient(h, c, ok)

\* C2 as stated: once revoke(id) has removed the record, every token issued
\* for id is rejected by verify_token in every later state, while raw
\* signature verification of an unexpired token still succeeds.
C2_RevokedRejectedForever ==
    \A t \in tokens :
        t.client_id \in revoked =>
            /\ ~verify_token(t, tm_clients, now)
            /\ now < t.exp /\ t.sig = ServerSecret
                   => verify_jwt_token(t, ServerSecret, now)

\* C2 amended: after revoke(id), and for as long as id has not been registered
\* again, verify_token rejects every token issued for id, while raw signature
\* verification of the unexpired token still succeeds.
C2_RevokedRejectedWhileUnregistered ==
    \A t \in tokens :
        (t.client_id \in revoked /\ t.client_id \notin DOMAIN tm_clients) =>
            /\ ~verify_token(t, tm_clients, now)
            /\ now < t.exp /\ t.sig = ServerSecret
                   => verify_jwt_token(t, ServerSecret, now)

C2_Witness ==
    \E t \in tokens :
        /\ t.client_id \in revoked
        /\ t.client_id \notin DOMAIN tm_clients
        /\ verify_jwt_token(t, ServerSecret, now)
        /\ ~verify_token(t, tm_clients, now)

\* C5: auth-check, entities, call-service, revoke-client and list-clients
\* answer 401 and change nothing unless the request carries a valid bearer; a
\* header without the 'Bearer ' prefix is rejected without verify_token.
C5_ProtectedViewsRejectInvalidBearer ==
    [][\A h \in Headers :
          (~ValidBearer(h) /\ ~Rejected(h)) => ~ProtectedRequest(h)]_vars

\* A request whose header carries a registered client's valid token without the
\* 'Bearer ' prefix was answered 401 with no verification.
C5_Witness ==
    /\ resp.ep = "revoke_client"
    /\ resp.status = HTTP_UNAUTHORIZED
    /\ ~resp.verified
    /\ \E t \in tokens : verify_token(t, tm_clients, now)

\* C6: register-client rejects a bearer that is a per-client token (of a
\* registered or of a revoked client) and creates no ClientRecord.
C6_RegisterRejectsClientToken ==
    [][\A h \in Headers, n \in ClientNames, ok \in BOOLEAN :
          (h.scheme = "Bearer" /\ h.token.client_id \in ClientIds
             /\ HttpRegisterClient(h, n, ok))
          => (resp'.status = HTTP_UNAUTHORIZED /\ UNCHANGED tm_clients)]_vars

\* What the duplex contract calls a valid token.
ValidToken(t) ==
    /\ t.sig = ServerSecret
    /\ now < t.exp
    /\ t.client_id \in DOMAIN tm_clients

NotExposedResult == [success |-> FALSE, error |-> "Entity not exposed"]

\* The frames the step added to the inbox of s carry no successful result.
NoSuccessSent(s) ==
    \A i \in (Len(inbox[s]) + 1)..Len(inbox'[s]) : ~inbox'[s][i].result.success

\* A duplex call_service for a non-exposed target went as claimed.
RefusedOnDuplex(s, sd, rid) ==
    /\ UNCHANGED hostCalls
    /\ NoSuccessSent(s)
    /\ (authenticated[s] /\ sd.kind = "dict")
           => inbox'[s] = Append(inbox[s], ServiceResponse(rid, NotExposedResult))

\* An HTTP call-service for a non-exposed target went as claimed.
RefusedOnHttp(h, sd) ==
    /\ UNCHANGED hostCalls
    /\ ~resp'.success
    /\ (ValidBearer(h) /\ sd.kind = "dict")
           => (resp'.status = HTTP_OK /\ resp'.body = NotExposedResult.error)

\* C1: a call_service request, on the duplex channel or on the HTTP view, whose
\* service_data entity_id is missing or not in the exposure list never invokes
\* the host action and never yields a successful result; an authenticated
\* (authorized) request gets the result {success: false}.
C1_NotExposedNeverInvoked ==
    [][\A sd \in ServiceData :
          sd.entity_id \notin ExposedEntities =>
              /\ \A s \in Sessions, rid \in RequestIds, ok \in BOOLEAN :
                     ~RefusedOnDuplex(s, sd, rid) => ~Recv(s, CallMsg(sd, rid), ok)
              /\ \A h \in Headers, ok \in BOOLEAN :
                     ~RefusedOnHttp(h, sd) => ~HttpCallService(h, sd, ok)]_vars

\* Both channels refused a request for the non-exposed lock.door.
C1_Witness ==
    /\ resp.ep = "call_service"
    /\ resp.status = HTTP_OK
    /\ resp.body = NotExposedResult.error
    /\ \E s \in Sessions, rid \in RequestIds :
           /\ Len(inbox[s]) > 0
           /\ inbox[s][Len(inbox[s])] = ServiceResponse(rid, NotExposedResult)
    /\ hostCalls = {}

\* The state of a session that never authenticated: outside the registry,
\* sent nothing but error and auth_failed frames, origin of no host action.
NeverServed(s) ==
    /\ s \notin clients
    /\ \A i \in 1..Len(inbox[s]) : inbox[s][i].type \in {"error", "auth_failed"}
    /\ \A c \in hostCalls : c.origin # s

\* The only effect of the step is one error frame for s (none for a text that
\* is no JSON object).
OnlyErrorFrame(s, m) ==
    /\ inbox' = [inbox EXCEPT ![s] = IF m.type = "malformed" THEN @
                                     ELSE Append(@, ErrorFrame)]
    /\ UNCHANGED <<authVars, resp, hostCalls, states, evCount, conn,
                   authenticated, clients, tasks>>

\* C3: a session that has not authenticated never receives an entities,
\* state_changed or service_response frame and causes no host action; each
\* non-auth message it sends is answered with an error frame and nothing else.
C3_UnauthenticatedGetsOnlyErrors ==
    [][/\ \A s \in Sessions : ~authenticated'[s] => NeverServed(s)'
       /\ \A s \in Sessions, m \in Messages, ok \in BOOLEAN :
              (~authenticated[s] /\ m.type # "auth" /\ ~OnlyErrorFrame(s, m))
                  => ~Recv(s, m, ok)]_vars

\* A session that never authenticated was answered with an error frame while
\* another session is registered and a broadcast has delivered a frame.
C3_Witness ==
    \E s \in Sessions :
        /\ ~authenticated[s]
        /\ Len(inbox[s]) > 0
        /\ inbox[s][1] = ErrorFrame
        /\ \E i \in 1..Len(tasks) : tasks[i].sent # {}

\* C4: an auth frame whose token fails verification is answered with
\* auth_failed and the connection is closed; closed is terminal: the session
\* is out of the registry and nothing more is handled or sent on it.
C4_AuthFailureIsTerminal ==
    [][/\ \A s \in Sessions, t \in PresentableTokens, ok \in BOOLEAN :
              (~ValidToken(t) /\ Recv(s, AuthMsg(t), ok)) =>
                  /\ inbox'[s] = Append(inbox[s], AuthFailed)
                  /\ conn'[s] = "closed"
                  /\ s \notin clients'
       /\ \A s \in Sessions :
              conn[s] = "closed" =>
                  /\ conn'[s] = "closed"
                  /\ s \notin clients'
                  /\ inbox'[s] = inbox[s]
                  /\ authenticated'[s] = authenticated[s]
                  /\ \A c \in hostCalls' \ hostCalls : c.origin # s]_vars

\* A session that had authenticated was closed by a later failed auth.
C4_Witness ==
    \E s \in Sessions :
        /\ conn[s] = "closed"
        /\ authenticated[s]
        /\ inbox[s][Len(inbox[s])] = AuthFailed
        /\ s \notin clients

Finished(t) == t.st \in {"done", "crashed"}

\* C7: a broadcast in which the send to a session fails ends without an error,
\* has delivered the frame to every other session of the registry and has
\* removed the failed session from the registry.
C7_FailedSendIsolated ==
    \A i \in 1..Len(tasks) :
        (Finished(tasks[i]) /\ tasks[i].failed # {}) =>
            /\ tasks[i].st = "done"
            /\ tasks[i].failed \cap clients = {}
            /\ (tasks[i].start \cap clients) \ tasks[i].failed \subseteq tasks[i].sent

\* C8: a broadcast iterates a snapshot of the session set: it does not fail
\* when sessions are added or removed while it is suspended in a send, and
\* every session of the set it started with is sent the frame.
C8_BroadcastIteratesSnapshot ==
    \A i \in 1..Len(tasks) :
        /\ tasks[i].st # "crashed"
        /\ tasks[i].st = "done" =>
               tasks[i].start \subseteq tasks[i].sent \cup tasks[i].failed

\* C9: a broadcast is made for events of exposed entities only, and it sends
\* the frame to every session of the registry, subscribed or not.
C9_EveryRegisteredSessionIsSent ==
    \A i \in 1..Len(tasks) :
        /\ tasks[i].entity_id \in ExposedEntities
        /\ Finished(tasks[i]) =>
               tasks[i].start \cap clients \subseteq tasks[i].sent \cup tasks[i].failed

\* C10: a session receives the frames of two events in the order of the
\* events: once the broadcast of a later event has sent to a session, the
\* broadcast of an earlier event does not send to it any more.
C10_BroadcastOrderPerSession ==
    [][\A j \in 1..Len(tasks), i \in 1..Len(tasks), s \in Sessions :
          (i < j /\ s \in tasks[j].sent /\ s \notin tasks[i].sent)
              => s \notin tasks'[i].sent]_vars

\* The view answered 200 with the token of the record it has just stored.
RegisterReturnsStoredToken ==
    \E c \in DOMAIN tm_clients' \ DOMAIN tm_clients :
        /\ resp'.token = tm_clients'[c].token
        /\ resp'.data = {c}

\* C11: round trip: the token register-client returns (while its record is
\* stored and it has not expired) authenticates a duplex session, which gets
\* auth_ok and joins the registry, and get_entities on an authenticated
\* session returns exactly the configured exposure list.
C11_RegisterAuthGetEntities ==
    [][/\ \A h \in Headers, n \in ClientNames :
              (HttpRegisterClient(h, n, TRUE) /\ resp'.status = HTTP_OK)
                  => RegisterReturnsStoredToken
       /\ \A s \in Sessions, c \in DOMAIN tm_clients, ok \in BOOLEAN :
              (now < tm_clients[c].token.exp
                  /\ Recv(s, AuthMsg(tm_clients[c].token), ok))
                  => /\ authenticated'[s]
                     /\ s \in clients'
                     /\ conn'[s] = "open"
                     /\ inbox'[s] = Append(inbox[s], AuthOk)
       /\ \A s \in Sessions, ok \in BOOLEAN :
              (authenticated[s] /\ Recv(s, PlainMsg("get_entities", NoEntity), ok))
                  => inbox'[s] = Append(inbox[s], EntitiesFrame(ExposedEntities))]_vars

\* From an empty store: a client was registered over HTTP and a session
\* authenticated (with the only client token there is) and got the list.
C11_Witness ==
    /\ resp.ep = "register_client"
    /\ resp.status = HTTP_OK
    /\ \E c \in DOMAIN tm_clients : tm_clients[c].token = resp.token
    /\ \E s \in Sessions :
           /\ authenticated[s]
           /\ s \in clients
           /\ inbox[s] = <<AuthOk, EntitiesFrame(ExposedEntities)>>

\* A response for rid comes late: the id is unknown, or the request timed
\* out, was cancelled or has returned.
Late(rid) ==
    \/ rid = UnknownRequest
    \/ call[rid] \in {"timedout", "returned", "cancelled"}

\* What a caller has got does not change any more.
OutcomeIsFinal ==
    \A r \in ClientRequests :
        /\ returned[r] # NoOutcome => returned'[r] = returned[r]
        /\ returned'[r].kind = "response" =>
               (future'[r].st = "result" /\ future'[r].by = r)

\* C12 as stated: every duplex request has exactly one outcome for its caller,
\* and a service_response that is late or has an unknown request_id changes
\* neither the pending-request table nor any caller's result.
C12_LateResponseChangesNothing ==
    [][/\ OutcomeIsFinal
       /\ \A rid \in ClientRequests \cup {UnknownRequest}, ok \in BOOLEAN :
              (Late(rid) /\ Listen(ServiceResponse(rid, OkValue), ok))
                  => UNCHANGED <<_pending_requests, returned, call>>]_vars

\* C12, amended: every duplex request has exactly one outcome for its caller,
\* which never changes once given; a late or unknown service_response
\* completes no future that is done and changes no caller's state or result;
\* all it can do to the table is remove the stale entry of the request it
\* names.
C12_LateResponseChangesNoResult ==
    [][/\ OutcomeIsFinal
       /\ \A rid \in ClientRequests \cup {UnknownRequest}, ok \in BOOLEAN :
              (Late(rid) /\ Listen(ServiceResponse(rid, OkValue), ok))
                  => /\ UNCHANGED <<returned, call>>
                     /\ _pending_requests' = _pending_requests \ {rid}
                     /\ rid \notin _pending_requests => UNCHANGED future
                     /\ (rid # UnknownRequest /\ future[rid].st # "pending")
                            => UNCHANGED future]_vars

\* A response found the entry of a request whose deadline had passed and
\* whose caller had not resumed yet: the entry is gone, the caller still gets
\* its timeout; another request was answered in time.
C12_Witness ==
    /\ phase = "running"
    /\ \E r \in ClientRequests :
           /\ call[r] = "timedout"
           /\ r \notin _pending_requests
           /\ future[r] = CancelledFuture
    /\ \E q \in ClientRequests : returned[q].kind = "response"

\* C13: a duplex request whose deadline passes without a response resolves to
\* {success: false, error: "Timeout"} and its entry is removed from the table.
C13_TimeoutResolvesAndRemoves ==
    [][\A r \in ClientRequests :
          /\ (call[r] = "waiting" /\ call'[r] = "timedout")
                 => (future[r].st = "pending" /\ future'[r].st = "cancelled")
          /\ (call[r] = "timedout" /\ call'[r] # "timedout")
                 => /\ call'[r] = "returned"
                    /\ returned'[r] = TimeoutResult
                    /\ r \notin _pending_requests'
          /\ returned'[r].kind = "timeout" => r \notin _pending_requests']_vars

\* A request timed out while the client stayed connected and running.
C13_Witness ==
    /\ phase = "running"
    /\ _connected
    /\ \E r \in ClientRequests :
           /\ returned[r] = TimeoutResult
           /\ future[r].st = "cancelled"

\* C14: every entry of the pending-request table is eventually removed, also
\* when the connection drops or the calling task is cancelled while it waits.
C14_EveryEntryEventuallyRemoved ==
    \A r \in ClientRequests :
        (r \in _pending_requests) ~> (r \notin _pending_requests)

\* C15: from the moment shutdown has cancelled the futures, and when it
\* completes, the table is empty and no outstanding request still has a
\* pending future: none is left to run into its timeout.
C15_ShutdownCancelsOutstanding ==
    phase \in {"stopping", "stopped"} =>
        /\ _pending_requests = {}
        /\ \A r \in ClientRequests :
               /\ call[r] \in {"sending", "waiting"}
                      => future[r].st \in {"cancelled", "result"}
               /\ call[r] = "timedout" => future[r].st = "cancelled"

\* Shutdown has completed and a caller that was waiting got the cancellation
\* of its future.
C15_Witness ==
    /\ phase = "stopped"
    /\ \E r \in ClientRequests : returned[r].kind = "future_cancelled"

\* C16: after shutdown has completed (and the cancelled listen task has
\* ended), no reconnect task is scheduled or running and no listen loop runs.
C16_NothingRunsAfterShutdown ==
    (phase = "stopped" /\ _listen_task # "cancelling") =>
        /\ _reconnect_task.st \notin {"sleeping", "running"}
        /\ _listen_task # "running"

\* C17: every failed connect (an error, or a reply other than auth_ok) and
\* every end of the listen loop leaves the client disconnected with one
\* reconnect attempt scheduled after the 30-second delay.
C17_FailureSchedulesReconnect ==
    [][/\ (SetupConnect \/ ReconnectConnect) =>
              (ServerReply # "auth_ok" =>
                  /\ ~_connected'
                  /\ _reconnect_task' = ReconnectTask("sleeping", RECONNECT_DELAY))
       /\ (_listen_task \in {"running", "cancelling"} /\ _listen_task' = "done")
              => /\ ~_connected'
                 /\ _reconnect_task' = ReconnectTask("sleeping", RECONNECT_DELAY)]_vars

\* C18: if from some time on the server is reachable, the token is valid and
\* the client is not shut down, the client is connected again and again.
C18_EventuallyReconnected ==
    <>[](reachable /\ tokenOk /\ phase = "running") => []<>_connected

\* C19: when the listen loop ends on a lost connection, every request that is
\* waiting for its response at that moment is failed by that very step.
C19_DropFailsPendingAtOnce ==
    [][(phase = "running" /\ _listen_task = "running" /\ _listen_task' = "done")
          => \A r \in ClientRequests :
                 (call[r] = "waiting" /\ future[r].st = "pending")
                     => future'[r].st # "pending"]_vars

\* The host has just changed exposed entity e (event number n), the broadcast
\* for it has not begun, and the client is registered and listening.
ChangePending(e, n) ==
    /\ states[e].seq = n
    /\ states[e].state # NoState
    /\ ClientSession \in clients
    /\ conn[ClientSession] = "open"
    /\ _listen_task = "running"
    /\ \E i \in 1..Len(tasks) :
           tasks[i].st = "new" /\ tasks[i].data.last_updated = n

\* The cache holds the snapshot of that change, or the entity has changed
\* again, or the client's connection or listen loop is gone.
ChangeSettled(e, n) ==
    \/ _entity_states[e] = _state_to_dict(e, states[e])
    \/ states[e].seq # n
    \/ conn[ClientSession] # "open"
    \/ _listen_task # "running"

\* C20: end-to-end convergence: a change of an exposed entity the server
\* makes while the client is authenticated and listening eventually shows in
\* the client's cache as exactly the snapshot the server built, unless the
\* entity changes again or the connection is lost.
C20_CacheConverges ==
    \A e \in ExposedEntities, n \in 1..MaxEvents :
        ChangePending(e, n) ~> ChangeSettled(e, n)

\* Handling the call_service frame (sd, rid) on session s sends exactly one
\* frame: the service_response with request_id rid and the result
\* call_service computed.
AnswersCall(s, sd, rid, hostOk) ==
    handle_message(authenticated[s], CallMsg(sd, rid), hostOk).frames
        = <<ServiceResponse(rid, call_service(sd, hostOk))>>

\* Whoever got a response got the result of the one service_response frame
\* the server sent for its request_id.
ResultIsOwn(r) ==
    returned[r].kind = "response" =>
        /\ Cardinality(Responses(r)) = 1
        /\ \A i \in Responses(r) :
               inbox[ClientSession][i].result =
                   [success |-> returned[r].success, error |-> returned[r].error]

\* C21: the server answers each call_service frame of an authenticated session
\* with one service_response carrying the frame's request_id and the result it
\* computed, and the result a caller gets for request r is the result of the
\* frame carrying r, also with several requests outstanding.
C21_ResultIsTheServersForR ==
    /\ \A s \in Sessions, sd \in ServiceData, rid \in RequestIds,
         ok \in BOOLEAN :
           (authenticated[s] /\ conn[s] = "open") => AnswersCall(s, sd, rid, ok)
    /\ \A r \in ClientRequests : ResultIsOwn(r)

\* The part of C21 that is about the client's own requests: each of them is
\* answered once, and a caller's result is that of the frame carrying its id.
OwnRequestsAnswered ==
    [][/\ \A r \in ClientRequests, sd \in ClientServiceData, ok \in BOOLEAN :
              ServeCall(r, sd, ok)
                  => inbox'[ClientSession] =
                         Append(inbox[ClientSession],
                                ServiceResponse(r, call_service(sd, ok)))
       /\ \A r \in ClientRequests : ResultIsOwn(r)']_vars

\* C22: the token of every registered client verifies (signature, expiry and
\* membership) at every time before its expiry and fails at and after it; the
\* auth view answers accordingly.
C22_TokenValidUntilExpiry ==
    [][\A c \in DOMAIN tm_clients :
          LET t == tm_clients[c].token IN
          /\ verify_token(t, tm_clients, now) <=> now < t.exp
          /\ t.exp = tm_clients[c].created_at + TOKEN_EXPIRATION_DAYS
          /\ HttpAuthCheck([scheme |-> "Bearer", token |-> t])
                 => /\ now < t.exp => resp'.status = HTTP_OK
                    /\ now >= t.exp => /\ resp'.status = HTTP_UNAUTHORIZED
                                       /\ resp'.body = "Invalid token"]_vars

\* The auth view refused a token while a registered client's token is exactly
\* at its expiry.
C22_Witness ==
    /\ resp.ep = "auth"
    /\ resp.status = HTTP_UNAUTHORIZED
    /\ resp.verified
    /\ \E c \in DOMAIN tm_clients :
           /\ tm_clients[c].token.exp = now
           /\ tokens = {tm_clients[c].token}

\* The result call_service builds from the exception of the host action.
HostError == [success |-> FALSE, error |-> "host error"]

\* A call for an exposed entity: the host action is invoked.
ExposedData == {sd \in ClientServiceData : sd.entity_id \in ExposedEntities}

\* The step sent the failure to the requester on session s and left the
\* session as it was: open, authenticated, its place in the registry kept.
FailureReported(s, rid) ==
    /\ inbox'[s] = Append(inbox[s], ServiceResponse(rid, HostError))
    /\ conn'[s] = "open"
    /\ authenticated'[s]
    /\ clients' = clients

\* The handler of s still serves a request.
StillServed(s) ==
    /\ conn[s] = "open"
    /\ handle_message(authenticated[s], PlainMsg("get_entities", NoEntity),
                      TRUE)
           = Outcome(<<EntitiesFrame(ExposedEntities)>>, TRUE, FALSE, FALSE,
                     FALSE)

\* C23: a host action that raises is reported to the requester as
\* {success: false, error: text}; the handler does not end: the session stays
\* open, authenticated and in the registry, and later messages are served.
C23_HostFailureReported ==
    [][/\ \A s \in Sessions, sd \in ExposedData, rid \in RequestIds :
              (authenticated[s] /\ conn[s] = "open") =>
                  handle_message(authenticated[s], CallMsg(sd, rid), FALSE)
                      = Outcome(<<ServiceResponse(rid, HostError)>>, TRUE,
                                FALSE, FALSE, TRUE)
       /\ \A s \in OtherSessions, sd \in ExposedData, rid \in RequestIds :
              (authenticated[s] /\ Recv(s, CallMsg(sd, rid), FALSE))
                  => (FailureReported(s, rid) /\ StillServed(s)')
       /\ \A r \in ClientRequests, sd \in ExposedData :
              ServeCall(r, sd, FALSE)
                  => (FailureReported(ClientSession, r)
                        /\ StillServed(ClientSession)')]_vars

\* The host action of the client's first request failed and the caller got
\* the failure; its second request was served on the same session afterwards.
C23_Witness ==
    /\ inbox[ClientSession] = <<AuthOk, ServiceResponse(1, HostError),
                                ServiceResponse(2, OkValue)>>
    /\ returned[1] = CallResult("response", FALSE, HostError.error)
    /\ returned[2] = CallResult("response", TRUE, OkValue.error)
    /\ ClientSession \in clients

\* What list-clients is to return: id, name and created_at of every record.
SafeClients ==
    {[client_id |-> c, client_name |-> tm_clients[c].client_name,
      created_at |-> tm_clients[c].created_at] : c \in DOMAIN tm_clients}

\* C24: GET list-clients with a valid bearer succeeds and returns exactly id,
\* name and created_at of every registered client, and no token.
C24_ListClientsReturnsSafeFields ==
    [][\A h \in Headers :
          (ValidBearer(h) /\ HttpListClients(h))
              => /\ resp'.status = HTTP_OK
                 /\ resp'.success
                 /\ resp'.data = SafeClients
                 /\ resp'.token = Garbage]_vars

\* C25: get_clients returns a copy: no mutation of the returned value (adding
\* or removing an entry, changing a field of a returned record) changes the
\* store's table, and so none changes a later verify_token or listing.
C25_ListingIsACopy ==
    [][\A op \in ListingOps, c \in ClientIds :
          MutateListing(op, c)
              => /\ tm_clients' = tm_clients
                 /\ get_clients' = get_clients
                 /\ \A t \in tokens :
                        verify_token(t, tm_clients', now)
                            = verify_token(t, tm_clients, now)]_vars

\* C26: when register or revoke reports success, the durable record already
\* holds the registered record (or lacks the revoked one), also when calls
\* for distinct clients interleave; a load after a restart reproduces it.
C26_SuccessMeansDurable ==
    [][/\ \A op \in StoreOps :
              SaveDone(op, TRUE) =>
                  /\ op.kind = "register" =>
                         /\ op.client_id \in DOMAIN durable'
                         /\ durable'[op.client_id] = tm_clients[op.client_id]
                  /\ op.kind = "revoke" => op.client_id \notin DOMAIN durable'
       /\ Restart => tm_clients' = durable]_vars

\* One registration has returned while another, for another client, is still
\* suspended in its save; the durable record holds both records.
C26_Witness ==
    /\ \E op \in saving : op.kind = "register"
    /\ Cardinality(saving) = 1
    /\ Cardinality(DOMAIN durable) = 2
    /\ durable = tm_clients

\* C27: a record is created only by a registration, deleted only by a
\* revocation and never changed in between: no step replaces or alters a
\* record that exists, whatever id a registration is given, and every record
\* is stored under its own client_id.
C27_RecordsImmutable ==
    [][/\ \A c \in DOMAIN tm_clients :
              /\ c \in DOMAIN tm_clients' => tm_clients'[c] = tm_clients[c]
              /\ c \notin DOMAIN tm_clients' => c \in revoked'
       /\ \A c \in DOMAIN tm_clients' :
              /\ tm_clients'[c].client_id = c
              /\ c \notin DOMAIN tm_clients =>
                     tm_clients'[c].token \in tokens' \ tokens]_vars

\* C28: each time the client becomes authenticated, on the first connect and
\* on every reconnect, it sends one subscribe frame for every entity of its
\* import list, in order, and then starts the listen loop; a send that fails
\* does not stop the sends for the remaining entities.
C28_SubscribesOnEveryConnect ==
    [][/\ ((SetupConnect \/ ReconnectConnect) /\ ServerReply = "auth_ok") =>
              /\ _connected'
              /\ _listen_task' = "running"
              /\ Len(subscribe_sends') = Len(ImportedEntities)
              /\ \A i \in 1..Len(ImportedEntities) :
                     subscribe_sends'[i].entity_id = ImportedEntities[i]
       /\ (_listen_task # "running" /\ _listen_task' = "running") =>
              Len(subscribe_sends') = Len(ImportedEntities)]_vars

\* A reconnect attempt has authenticated; the first subscribe send failed and
\* the second was made.
C28_Witness ==
    /\ _reconnect_task.st = "done"
    /\ _connected
    /\ _listen_task = "running"
    /\ subscribe_sends = <<SubscribeSend(ImportedEntities[1], FALSE),
                           SubscribeSend(ImportedEntities[2], TRUE)>>

\* C29: the cache changes only when a state_changed frame with data is
\* handled: no other frame, no action dispatch (the light's optimistic update
\* included), no reconnect and no timeout alters a cache entry.
C29_CacheChangesOnlyOnStateChanged ==
    [][_entity_states' # _entity_states =>
          \E data \in ClientFrames, ok \in BOOLEAN :
              /\ data.type = "state_changed"
              /\ data.data.state # NoState
              /\ Listen(data, ok)
              /\ _entity_states' =
                     [_entity_states EXCEPT ![data.entity_id] = data.data]]_vars

\* C30: action dispatch is a total mapping from (namespace, desired state,
\* params) to an action: light maps "on" to turn_on with brightness,
\* rgb_color and color_temp passed through and anything else to turn_off
\* without them; switch maps "on" to turn_on and anything else to turn_off;
\* cover maps "open" to open_cover, "closed" to close_cover and anything else
\* to stop_cover; climate always maps to set_temperature with temperature and
\* hvac_mode passed through; every other namespace maps "on" to turn_on and
\* anything else to turn_off; the action always carries the entity_id, and
\* exactly one call_service is issued per dispatch.
Namespace(d) == FirstPart(d.entity_id)
Desired(d) == IF "state" \in DOMAIN d.kwargs THEN d.kwargs["state"] ELSE NoState
Carries(d, keys) ==
    d.calls[1].service_data =
        [k \in {"entity_id"} \cup (keys \cap DOMAIN d.kwargs) |->
            IF k = "entity_id" THEN d.entity_id ELSE d.kwargs[k]]
OnOff(d) == IF Desired(d) = "on" THEN "turn_on" ELSE "turn_off"
MapsAsStated(d) ==
    /\ Len(d.calls) = 1
    /\ d.calls[1].domain = Namespace(d)
    /\ d.calls[1].service_data["entity_id"] = d.entity_id
    /\ Namespace(d) = <<"light">> /\ Desired(d) = "on" =>
           /\ d.calls[1].service = "turn_on"
           /\ Carries(d, {"brightness", "rgb_color", "color_temp"})
    /\ Namespace(d) = <<"light">> /\ Desired(d) # "on" =>
           /\ d.calls[1].service = "turn_off"
           /\ Carries(d, {})
    /\ Namespace(d) = <<"switch">> =>
           /\ d.calls[1].service = OnOff(d)
           /\ Carries(d, {})
    /\ Namespace(d) = <<"cover">> =>
           /\ Desired(d) = "open" => d.calls[1].service = "open_cover"
           /\ Desired(d) = "closed" => d.calls[1].service = "close_cover"
           /\ Desired(d) \notin {"open", "closed"} =>
                  d.calls[1].service = "stop_cover"
           /\ Carries(d, {})
    /\ Namespace(d) = <<"climate">> =>
           /\ d.calls[1].service = "set_temperature"
           /\ Carries(d, {"temperature", "hvac_mode"})
    /\ Namespace(d) \notin {<<"light">>, <<"switch">>, <<"cover">>,
                            <<"climate">>} =>
           /\ d.calls[1].service = OnOff(d)
           /\ Carries(d, {})
IssuedNow == {r \in ClientRequests : call[r] = "unused" /\ call'[r] # "unused"}
C30_DispatchIsTotalMapping ==
    [][last_dispatch' # last_dispatch =>
          /\ MapsAsStated(last_dispatch')
          /\ Cardinality(IssuedNow) = 1]_vars

\* A light was asked to be on, with a brightness and an hvac_mode, and the
\* one call is turn_on with the brightness.
C30_Witness ==
    /\ call[1] # "unused"
    /\ last_dispatch.entity_id = <<"light", ".", "kitchen">>
    /\ last_dispatch.kwargs = KwargsOf({"brightness", "hvac_mode"}, "on")
    /\ last_dispatch.calls[1].service = "turn_on"
    /\ last_dispatch.calls[1].service_data["brightness"] = "200"

\* C31: token verification reports the two failure kinds separately, Expired
\* for a correctly signed token past its expiry and Malformed for a token
\* whose signature or structure is invalid: what verify gives its caller for
\* the one differs from what it gives for the other.
IsExpired(t) ==
    jwt_decode(t, ServerSecret, now).error = "ExpiredSignatureError"
IsMalformed(t) ==
    jwt_decode(t, ServerSecret, now).error = "InvalidTokenError"
Presented ==
    tokens \cup {Garbage}
           \cup {_generate_token_other_secret(c, 0) : c \in ClientIds}
C31_FailureKindsToldApart ==
    \A e, m \in Presented :
        IsExpired(e) /\ IsMalformed(m) =>
            /\ verify_token_returns(e, tm_clients, now)
                   # verify_token_returns(m, tm_clients, now)
            /\ verify_jwt_token_returns(e, ServerSecret, now)
                   # verify_jwt_token_returns(m, ServerSecret, now)

\* C32: every state_changed frame the server sends to a session, as a
\* broadcast or as the reply to subscribe(entity_id), carries an entity_id of
\* the exposure list: no client obtains the state of a non-exposed entity.
C32_OnlyExposedStateSent ==
    \A s \in Sessions : \A i \in 1..Len(inbox[s]) :
        inbox[s][i].type = "state_changed"
            => inbox[s][i].entity_id \in get_exposed_entities

\* C33: revoking a client changes only the credential table: the session
\* registry and the sessions are as they were, and what is done for a
\* session that authenticated before (its requests other than auth, the
\* broadcasts to it) is what was done before the revocation: its call_service
\* requests for exposed entities still reach the host.
ServedAsBefore ==
    /\ \A m \in Messages, ok \in BOOLEAN :
           m.type # "auth" =>
               handle_message(TRUE, m, ok)' = handle_message(TRUE, m, ok)
    /\ \A i \in 1..Len(tasks) : broadcast_step(tasks[i])' = broadcast_step(tasks[i])
    /\ \A sd \in ExposedData, rid \in RequestIds :
           handle_message(TRUE, CallMsg(sd, rid), TRUE)'.invoked
C33_RevokeLeavesSessions ==
    [][\A c \in ClientIds :
           RevokeClient(c, TRUE) =>
               /\ UNCHANGED <<clients, authenticated, conn, inbox, tasks>>
               /\ ServedAsBefore]_vars

\* A session authenticated with the token of a client that is revoked now: it
\* is open, authenticated and in the registry, and its token verifies no more.
C33_Witness ==
    /\ revoked # {}
    /\ \A t \in tokens : ~verify_token(t, tm_clients, now)
    /\ \E s \in Sessions :
           /\ authenticated[s]
           /\ conn[s] = "open"
           /\ s \in clients
           /\ Len(inbox[s]) = MaxInbox
           /\ inbox[s][MaxInbox].type = "state_changed"

\* C34: every session in the registry has presented a token that passed
\* verification and its handler has not terminated: a handler that ends
\* removes its session, and nothing adds a session except a successful auth
\* inside its own handler.
HandlerRunning(s) == conn[s] \in {"open", "broken"}
C34_RegistryHoldsLiveAuthenticated ==
    [][\A s \in Sessions :
          /\ s \in clients' => authenticated'[s] /\ HandlerRunning(s)'
          /\ ~HandlerRunning(s)' => s \notin clients'
          /\ s \in clients' \ clients =>
                 \E t \in PresentableTokens :
                     /\ verify_client_token(t)
                     /\ Recv(s, AuthMsg(t), TRUE)]_vars

\* A handler has ended for a session that was in the registry when the
\* shutdown began, and another session is in the registry.
C34_Witness ==
    /\ \E s \in shutdown.seen : conn[s] = "closed" /\ authenticated[s]
    /\ clients # {}

\* C35: every session that is authenticated and whose handler is still
\* running is in the registry (so it gets every later broadcast), also after
\* a broadcast's prune and after a server shutdown.
C35_LiveAuthenticatedInRegistry ==
    \A s \in Sessions :
        authenticated[s] /\ HandlerRunning(s) => s \in clients

\* C37: when the server's shutdown completes the registry is empty and every
\* session that was in the registry at some moment during the shutdown has
\* been closed, also one that authenticated while the shutdown awaited the
\* closing of others.
C37_ShutdownClosesEverySession ==
    [][shutdown.st # "done" /\ shutdown'.st = "done" =>
          /\ clients' = {}
          /\ \A s \in shutdown'.seen : conn'[s] # "open"]_vars

\* C36: the client has at most one live listen loop and at most one connect
\* attempt scheduled or in progress (the tasks of _reconnect_later and the
\* connects of the health check together): a listen task is created only when
\* the one before has ended, and a connect attempt only when no other is
\* scheduled or in progress (a failing attempt schedules its successor as it
\* ends); and _connected is true only on a connection on which auth_ok was
\* received and whose listen loop has not ended.
ListenLive == _listen_task \in {"running", "cancelling"}
AttemptLive == _reconnect_task.st \in {"sleeping", "running"}
NewListen ==
    /\ SetupConnect \/ ReconnectConnect
    /\ ServerReply = "auth_ok"
NewAttempt ==
    \/ ListenExit
    \/ \E data \in ClientFrames, ok \in BOOLEAN :
           Listen(data, ok) /\ _listen_task' = "done"
    \/ HealthCheck /\ _reconnect_task' # _reconnect_task
    \/ SetupConnect /\ ServerReply = "error"
C36_OneLoopOneAttempt ==
    [][/\ NewListen => ~ListenLive
       /\ NewAttempt => ~AttemptLive
       /\ _connected' => /\ _listen_task' = "running"
                         /\ _ws' \in {"open", "dropped"}]_vars

\* A reconnect has succeeded: its task has ended, the one listen loop runs,
\* and a request is waiting on the new connection.
C36_Witness ==
    /\ _connected
    /\ _listen_task = "running"
    /\ _reconnect_task.st = "done"
    /\ \E r \in ClientRequests : call[r] = "waiting"

\* C38: whenever no register or revoke is in progress the in-memory table
\* equals the durable record, also after an operation whose save failed: no
\* token verifies for a registration that failed, and no revoked client comes
\* back with a reload.
C38_TableEqualsDurableRecord ==
    saving = {} => tm_clients = durable

\* C39: the light entity's update has two phases: after a turn_on or
\* turn_off dispatch its local state holds the requested value, and the next
\* state_changed frame received for the entity replaces the local state with
\* the frame's snapshot: no optimistic value survives an authoritative update.
C39_TwoPhaseUpdate ==
    [][/\ \A v \in {"on", "off"} :
              LightTurn(v) => _entity_data'.state = v
       /\ \A data \in ClientFrames, ok \in BOOLEAN :
              (/\ data.type = "state_changed"
               /\ data.data.state # NoState
               /\ data.entity_id = LightEntity
               /\ _entity_data.exists
               /\ Listen(data, ok))
                  => _entity_data'.state = data.data.state]_vars

====
